---- MODULE Spec2Model ----
(***************************************************************************)
(* State-machine model of CTxMemPool (src/src/txmempool.cpp): the entry    *)
(* set mapTx, the spend index mapNextTx, the three nullifier maps, the     *)
(* wallet notification queue, the prioritisation store, the size counters, *)
(* the insight indexes, the weighted eviction tree and the removal         *)
(* protocol.  Pointers into pool entries (pointer to CTransaction) are     *)
(* modelled by the txid of the entry they point into; such a pointer is    *)
(* valid exactly while that txid is a key of mapTx.                        *)
(***************************************************************************)
EXTENDS Integers, Sequences, FiniteSets, TLC

(***************************************************************************)
(* Bounds of the exploration.                                              *)
(***************************************************************************)
\* calls are explored while nTransactionsUpdated is below this (every
\* insertion, removal and clear adds 1 to it)
MaxUpdated == 5
\* largest absolute fee / priority delta accumulated in one mapDeltas row
MaxDelta == 1

(***************************************************************************)
(* Generic finite-map helpers (std::map find / insert / operator[] /erase) *)
(***************************************************************************)
EmptyMap == [x \in {} |-> 0]

MapPut(f, k, v) == [x \in (DOMAIN f) \cup {k} |-> IF x = k THEN v ELSE f[x]]

\* std::map::insert: an existing row is kept
MapInsert(f, k, v) == IF k \in DOMAIN f THEN f ELSE MapPut(f, k, v)

MapEraseAll(f, ks) == [x \in (DOMAIN f) \ ks |-> f[x]]

MapErase(f, k) == MapEraseAll(f, {k})

SeqToSet(s) == {s[i] : i \in DOMAIN s}

RECURSIVE SumOver(_, _)
SumOver(S, f) ==
    IF S = {} THEN 0
    ELSE LET x == CHOOSE y \in S : TRUE IN f[x] + SumOver(S \ {x}, f)

\* ascending order of a finite set of integers, as a sequence
RECURSIVE SortedSeq(_)
SortedSeq(S) ==
    IF S = {} THEN <<>>
    ELSE LET m == CHOOSE x \in S : \A y \in S : x <= y
         IN <<m>> \o SortedSeq(S \ {m})

(***************************************************************************)
(* Transactions.  A txid is the content hash of its transaction, so the    *)
(* content of every transaction is a function of its txid.  Txids 1..5     *)
(* are the transactions offered to the pool; txid 6 is a coinbase          *)
(* transaction of the chain, which the pool never holds.                   *)
(*   1 -> 2 -> 3 and 1 -> 3   (3 spends an output of 1 and one of 2)       *)
(*   4 spends the outpoint 1 spends; 5 reveals the sapling nullifier of 1, *)
(*   a sprout nullifier of 2 and the orchard nullifier of 3, and spends a  *)
(*   coinbase output and the output of 4 (4 -> 5).                         *)
(*   Sapling anchors: 1 for transactions 1, 4 and 2 for 2, 5; 3 has no     *)
(*   sapling spend, its only nullifier is the orchard one.                 *)
(*   2, 4 and 5 expire after height 5; 3, the child of 2, never expires.  *)
(***************************************************************************)
SPROUT == "SPROUT"
SAPLING == "SAPLING"
ORCHARD == "ORCHARD"

Tx(vin, nVout, js, ss, orchard, size, usage, fee, cb, expiry, lock, branch) ==
    [vin |-> vin, nVout |-> nVout, vJoinSplit |-> js,
     vShieldedSpend |-> ss, orchardNullifiers |-> orchard,
     nTxSize |-> size, nUsageSize |-> usage, nFee |-> fee,
     spendsCoinbase |-> cb, nExpiryHeight |-> expiry, nLockTime |-> lock,
     nBranchId |-> branch]

JS(anchor, nfs) == [anchor |-> anchor, nullifiers |-> nfs]
SS(anchor, nf) == [anchor |-> anchor, nullifier |-> nf]

TxTable ==
    <<Tx(<< <<6, 0>> >>, 2, <<>>, <<SS(1, 1)>>, <<>>, 2, 11, 5, TRUE, 0, 0, 1),
      Tx(<< <<1, 0>> >>, 1, <<JS(1, <<1, 2>>)>>, <<SS(2, 5)>>, <<>>, 3, 13, 1, FALSE, 5, 0, 1),
      Tx(<< <<1, 1>>, <<2, 0>> >>, 1, <<>>, <<>>, <<1>>, 4, 17, 2, FALSE, 0, 0, 1),
      Tx(<< <<6, 0>> >>, 1, <<>>, <<SS(1, 2)>>, <<>>, 5, 19, 3, TRUE, 5, 7, 2),
      Tx(<< <<6, 1>>, <<4, 0>> >>, 1, <<JS(2, <<2>>)>>, <<SS(2, 1)>>, <<1>>, 6, 23, 1, TRUE, 5, 0, 2),
      Tx(<<>>, 2, <<>>, <<>>, <<>>, 1, 7, 0, FALSE, 0, 0, 1)>>

TxIds == DOMAIN TxTable

\* the transactions that can be offered to the pool (a coinbase cannot)
PoolTxIds == {t \in TxIds : TxTable[t].vin # <<>>}

\* tx.vin[k].prevout, k = 1..Len (the code counts positions from 0)
Vin(t) == TxTable[t].vin

Prevouts(t) == SeqToSet(Vin(t))

NVout(t) == TxTable[t].nVout

\* nullifiers of all joinsplits of t
SproutNullifiers(t) ==
    UNION {SeqToSet(TxTable[t].vJoinSplit[j].nullifiers) :
              j \in DOMAIN TxTable[t].vJoinSplit}

SaplingNullifiers(t) ==
    {TxTable[t].vShieldedSpend[j].nullifier : j \in DOMAIN TxTable[t].vShieldedSpend}

OrchardNullifiers(t) == SeqToSet(TxTable[t].orchardNullifiers)

(***************************************************************************)
(* The pool's state.                                                       *)
(***************************************************************************)
VARIABLES
    mapTx,                  \* txid -> entry (the mutable part: feeDelta)
    mapNextTx,              \* outpoint -> CInPoint [ptx, n]
    mapSproutNullifiers,    \* nullifier -> ptx
    mapSaplingNullifiers,
    mapOrchardNullifiers,
    mapRecentlyAddedTx,     \* txid -> ptx
    nRecentlyAddedSequence,
    mapDeltas,              \* txid -> <<priority delta, fee delta>>
    nTransactionsUpdated,
    totalTxSize,
    cachedInnerUsage,
    weightedTxTree,         \* [capacity, nodes: txid -> weight]
    recentlyEvicted,        \* [seconds, ids]
    mapAddress,             \* address key -> delta
    mapAddressInserted,     \* txid -> keys
    mapSpent,               \* spent key -> value
    mapSpentInserted,       \* txid -> keys
    fAddressIndex,
    fSpentIndex,
    nCheckFrequency,
    fault,                  \* "none", or how the process died
    last                    \* the last call: its name, arguments, the state
                            \* before it and what it handed back

vars == <<mapTx, mapNextTx, mapSproutNullifiers, mapSaplingNullifiers,
          mapOrchardNullifiers, mapRecentlyAddedTx, nRecentlyAddedSequence,
          mapDeltas, nTransactionsUpdated, totalTxSize, cachedInnerUsage,
          weightedTxTree, recentlyEvicted, mapAddress, mapAddressInserted,
          mapSpent, mapSpentInserted, fAddressIndex, fSpentIndex,
          nCheckFrequency, fault, last>>

\* the pool as one value, handed to the operators below
Pool ==
    [mapTx |-> mapTx, mapNextTx |-> mapNextTx,
     mapSproutNullifiers |-> mapSproutNullifiers,
     mapSaplingNullifiers |-> mapSaplingNullifiers,
     mapOrchardNullifiers |-> mapOrchardNullifiers,
     mapRecentlyAddedTx |-> mapRecentlyAddedTx,
     nRecentlyAddedSequence |-> nRecentlyAddedSequence,
     mapDeltas |-> mapDeltas, nTransactionsUpdated |-> nTransactionsUpdated,
     totalTxSize |-> totalTxSize, cachedInnerUsage |-> cachedInnerUsage,
     weightedTxTree |-> weightedTxTree, recentlyEvicted |-> recentlyEvicted,
     mapAddress |-> mapAddress, mapAddressInserted |-> mapAddressInserted,
     mapSpent |-> mapSpent, mapSpentInserted |-> mapSpentInserted,
     fAddressIndex |-> fAddressIndex, fSpentIndex |-> fSpentIndex,
     nCheckFrequency |-> nCheckFrequency, fault |-> fault]

SetPool(q) ==
    /\ mapTx' = q.mapTx
    /\ mapNextTx' = q.mapNextTx
    /\ mapSproutNullifiers' = q.mapSproutNullifiers
    /\ mapSaplingNullifiers' = q.mapSaplingNullifiers
    /\ mapOrchardNullifiers' = q.mapOrchardNullifiers
    /\ mapRecentlyAddedTx' = q.mapRecentlyAddedTx
    /\ nRecentlyAddedSequence' = q.nRecentlyAddedSequence
    /\ mapDeltas' = q.mapDeltas
    /\ nTransactionsUpdated' = q.nTransactionsUpdated
    /\ totalTxSize' = q.totalTxSize
    /\ cachedInnerUsage' = q.cachedInnerUsage
    /\ weightedTxTree' = q.weightedTxTree
    /\ recentlyEvicted' = q.recentlyEvicted
    /\ mapAddress' = q.mapAddress
    /\ mapAddressInserted' = q.mapAddressInserted
    /\ mapSpent' = q.mapSpent
    /\ mapSpentInserted' = q.mapSpentInserted
    /\ fAddressIndex' = q.fAddressIndex
    /\ fSpentIndex' = q.fSpentIndex
    /\ nCheckFrequency' = q.nCheckFrequency
    /\ fault' = q.fault

(***************************************************************************)
(* WeightedTxTree and RecentlyEvictedList (mempool_limit): add, remove,    *)
(* total and the construction SetMempoolCostLimit performs.                *)
(***************************************************************************)
\* the capacity the pool is constructed with: no pool of the model exceeds it
DefaultCostLimit == 1000

DefaultEvictionMemory == 60

\* WeightedTxInfo::from(tx, fee): the weight of a transaction
TxWeight(t) == TxTable[t].nTxSize

NewTree(limit) == [capacity |-> limit, nodes |-> EmptyMap]

TreeAdd(tree, t, w) == [tree EXCEPT !.nodes = MapPut(@, t, w)]

TreeRemove(tree, t) == [tree EXCEPT !.nodes = MapErase(@, t)]

TreeTotal(tree) == SumOver(DOMAIN tree.nodes, tree.nodes)

RECURSIVE TreeRemoveAll(_, _)
TreeRemoveAll(tree, removed) ==
    IF removed = <<>> THEN tree
    ELSE TreeRemoveAll(TreeRemove(tree, Head(removed)), Tail(removed))

NewEvicted(seconds) == [seconds |-> seconds, ids |-> {}]

(***************************************************************************)
(* CTxMemPool::addUnchecked                                                *)
(***************************************************************************)
\* mapNextTx after "for i: mapNextTx[tx.vin[i].prevout] = CInPoint(&tx, i)"
RECURSIVE AddSpends(_, _, _)
AddSpends(m, t, i) ==
    IF i > Len(Vin(t)) THEN m
    ELSE AddSpends(MapPut(m, Vin(t)[i], [ptx |-> t, n |-> i - 1]), t, i + 1)

\* a nullifier map after "map[nf] = &tx" for each nullifier of nfs
AddNullifiers(m, nfs, t) ==
    [nf \in (DOMAIN m) \cup nfs |-> IF nf \in nfs THEN t ELSE m[nf]]

\* faulty variant: the fee delta stored in mapDeltas is not applied
addUnchecked_IgnoresDeltas(p, hash, entry) ==
    LET \* mapTx.insert(entry).first: an entry of that txid already there is kept
        newit == IF hash \in DOMAIN p.mapTx THEN p.mapTx[hash] ELSE [feeDelta |-> 0]
        \* tx = newit->GetTx()
        tx == entry
        fd == newit.feeDelta
    IN [p EXCEPT
          !.weightedTxTree = TreeAdd(@, entry, TxWeight(entry)),
          !.mapTx = MapPut(@, hash, [newit EXCEPT !.feeDelta = fd]),
          !.cachedInnerUsage = @ + TxTable[entry].nUsageSize,
          !.mapRecentlyAddedTx = MapPut(@, tx, tx),
          !.nRecentlyAddedSequence = @ + 1,
          !.mapNextTx = AddSpends(@, tx, 1),
          !.mapSproutNullifiers = AddNullifiers(@, SproutNullifiers(tx), tx),
          !.mapSaplingNullifiers = AddNullifiers(@, SaplingNullifiers(tx), tx),
          !.mapOrchardNullifiers = AddNullifiers(@, OrchardNullifiers(tx), tx),
          !.nTransactionsUpdated = @ + 1,
          !.totalTxSize = @ + TxTable[entry].nTxSize]

addUnchecked(p, hash, entry) ==
    LET \* mapTx.insert(entry).first: an entry of that txid already there is kept
        newit == IF hash \in DOMAIN p.mapTx THEN p.mapTx[hash] ELSE [feeDelta |-> 0]
        \* tx = newit->GetTx()
        tx == entry
        fd == IF hash \in DOMAIN p.mapDeltas /\ p.mapDeltas[hash][2] # 0
              THEN p.mapDeltas[hash][2]
              ELSE newit.feeDelta
    IN [p EXCEPT
          !.weightedTxTree = TreeAdd(@, entry, TxWeight(entry)),
          !.mapTx = MapPut(@, hash, [newit EXCEPT !.feeDelta = fd]),
          !.cachedInnerUsage = @ + TxTable[entry].nUsageSize,
          !.mapRecentlyAddedTx = MapPut(@, tx, tx),
          !.nRecentlyAddedSequence = @ + 1,
          !.mapNextTx = AddSpends(@, tx, 1),
          !.mapSproutNullifiers = AddNullifiers(@, SproutNullifiers(tx), tx),
          !.mapSaplingNullifiers = AddNullifiers(@, SaplingNullifiers(tx), tx),
          !.mapOrchardNullifiers = AddNullifiers(@, OrchardNullifiers(tx), tx),
          !.nTransactionsUpdated = @ + 1,
          !.totalTxSize = @ + TxTable[entry].nTxSize]

(***************************************************************************)
(* What AcceptToMemoryPool has checked before it calls addUnchecked: the   *)
(* txid is not in the pool, no input is spent by a pool entry and no       *)
(* nullifier is known to the pool (nullifierExists).                       *)
(***************************************************************************)
Admissible(p, t) ==
    /\ t \notin DOMAIN p.mapTx
    /\ Prevouts(t) \cap DOMAIN p.mapNextTx = {}
    /\ SproutNullifiers(t) \cap DOMAIN p.mapSproutNullifiers = {}
    /\ SaplingNullifiers(t) \cap DOMAIN p.mapSaplingNullifiers = {}
    /\ OrchardNullifiers(t) \cap DOMAIN p.mapOrchardNullifiers = {}

(***************************************************************************)
(* Insight explorer indexes.                                               *)
(***************************************************************************)
UNKNOWN == "UNKNOWN"

\* the script of output n of transaction h: its type, address hash and value
ScriptOf(o) ==
    [type |-> IF o[1] = 6 /\ o[2] = 1 THEN UNKNOWN ELSE "P2PKH",
     addr |-> o[1], nValue |-> 10 + o[2]]

RECURSIVE AddressInputKeys(_, _)
AddressInputKeys(t, j) ==
    IF j > Len(Vin(t)) THEN <<>>
    ELSE LET prevout == ScriptOf(Vin(t)[j])
             rest == AddressInputKeys(t, j + 1)
         IN IF prevout.type = UNKNOWN THEN rest
            ELSE <<[type |-> prevout.type, addr |-> prevout.addr, txhash |-> t,
                    index |-> j - 1, spending |-> 1]>> \o rest

RECURSIVE AddressOutputKeys(_, _)
AddressOutputKeys(t, j) ==
    IF j >= NVout(t) THEN <<>>
    ELSE LET out == ScriptOf(<<t, j>>)
             rest == AddressOutputKeys(t, j + 1)
         IN IF out.type = UNKNOWN THEN rest
            ELSE <<[type |-> out.type, addr |-> out.addr, txhash |-> t,
                    index |-> j, spending |-> 0]>> \o rest

AddressDelta(key) ==
    IF key.spending = 1
    THEN LET o == Vin(key.txhash)[key.index + 1]
         IN [amount |-> 0 - ScriptOf(o).nValue, prevhash |-> o[1], prevout |-> o[2]]
    ELSE [amount |-> ScriptOf(<<key.txhash, key.index>>).nValue,
          prevhash |-> 0, prevout |-> 0]

RECURSIVE InsertAddressRows(_, _)
InsertAddressRows(m, keys) ==
    IF keys = <<>> THEN m
    ELSE InsertAddressRows(MapInsert(m, Head(keys), AddressDelta(Head(keys))), Tail(keys))

addAddressIndex(p, entry) ==
    LET inserted == AddressInputKeys(entry, 1) \o AddressOutputKeys(entry, 0)
    IN [p EXCEPT !.mapAddress = InsertAddressRows(@, inserted),
                 !.mapAddressInserted = MapInsert(@, entry, inserted)]

removeAddressIndex(p, txhash) ==
    IF txhash \in DOMAIN p.mapAddressInserted
    THEN [p EXCEPT !.mapAddress = MapEraseAll(@, SeqToSet(p.mapAddressInserted[txhash])),
                   !.mapAddressInserted = MapErase(@, txhash)]
    ELSE p

SpentKeys(t) == [j \in DOMAIN Vin(t) |-> Vin(t)[j]]

SpentValue(t, j) ==
    [txid |-> t, inputIndex |-> j - 1, blockHeight |-> 0 - 1,
     satoshis |-> ScriptOf(Vin(t)[j]).nValue,
     addressType |-> ScriptOf(Vin(t)[j]).type,
     addressHash |-> ScriptOf(Vin(t)[j]).addr]

RECURSIVE AddSpentRows(_, _, _)
AddSpentRows(m, t, j) ==
    IF j > Len(Vin(t)) THEN m
    ELSE AddSpentRows(MapInsert(m, Vin(t)[j], SpentValue(t, j)), t, j + 1)

addSpentIndex(p, entry) ==
    [p EXCEPT !.mapSpent = AddSpentRows(@, entry, 1),
              !.mapSpentInserted = MapInsert(@, entry, SpentKeys(entry))]

removeSpentIndex(p, txhash) ==
    IF txhash \in DOMAIN p.mapSpentInserted
    THEN [p EXCEPT !.mapSpent = MapEraseAll(@, SeqToSet(p.mapSpentInserted[txhash])),
                   !.mapSpentInserted = MapErase(@, txhash)]
    ELSE p


(***************************************************************************)
(* CTxMemPool::remove                                                      *)
(***************************************************************************)
\* faulty variant: only output 0 of the transaction is followed
SpendersOf_FirstOutputOnly(m, hash, i, nVout) ==
    IF i = 0 /\ nVout > 0 /\ <<hash, 0>> \in DOMAIN m
    THEN <<m[<<hash, 0>>].ptx>> ELSE <<>>

\* the spenders mapNextTx names for outputs i, i+1, .. nVout-1 of hash,
\* in that order ("for i < vout.size(): it = mapNextTx.find(COutPoint(hash, i))")
RECURSIVE SpendersOf(_, _, _, _)
SpendersOf(m, hash, i, nVout) ==
    IF i >= nVout THEN <<>>
    ELSE IF <<hash, i>> \in DOMAIN m
         THEN <<m[<<hash, i>>].ptx>> \o SpendersOf(m, hash, i + 1, nVout)
         ELSE SpendersOf(m, hash, i + 1, nVout)

\* faulty variant: only the row of the first input is erased
EraseSpends_FirstInputOnly(m, tx) ==
    IF Vin(tx) = <<>> THEN m ELSE MapErase(m, Vin(tx)[1])

\* the spend rows one removal erases: "for txin in tx.vin: mapNextTx.erase(txin.prevout)"
EraseSpends(m, tx) == MapEraseAll(m, Prevouts(tx))

\* faulty variant: the entry's mapRecentlyAddedTx row is left behind
RemoveEntry_KeepsRecentlyAdded(p, hash) ==
    LET tx == hash
        q == [p EXCEPT
                !.mapNextTx = MapEraseAll(@, Prevouts(tx)),
                !.mapSproutNullifiers = MapEraseAll(@, SproutNullifiers(tx)),
                !.mapSaplingNullifiers = MapEraseAll(@, SaplingNullifiers(tx)),
                !.mapOrchardNullifiers = MapEraseAll(@, OrchardNullifiers(tx)),
                !.totalTxSize = @ - TxTable[hash].nTxSize,
                !.cachedInnerUsage = @ - TxTable[hash].nUsageSize,
                !.mapTx = MapErase(@, hash),
                !.nTransactionsUpdated = @ + 1]
        q1 == IF q.fAddressIndex THEN removeAddressIndex(q, hash) ELSE q
    IN IF q1.fSpentIndex THEN removeSpentIndex(q1, hash) ELSE q1

\* the body of the while loop for an entry that is in the pool (lines 299-324)
RemoveEntry(p, hash) ==
    LET tx == hash
        q == [p EXCEPT
                !.mapRecentlyAddedTx = MapErase(@, hash),
                !.mapNextTx = EraseSpends(@, tx),
                !.mapSproutNullifiers = MapEraseAll(@, SproutNullifiers(tx)),
                !.mapSaplingNullifiers = MapEraseAll(@, SaplingNullifiers(tx)),
                !.mapOrchardNullifiers = MapEraseAll(@, OrchardNullifiers(tx)),
                !.totalTxSize = @ - TxTable[hash].nTxSize,
                !.cachedInnerUsage = @ - TxTable[hash].nUsageSize,
                !.mapTx = MapErase(@, hash),
                !.nTransactionsUpdated = @ + 1]
        q1 == IF q.fAddressIndex THEN removeAddressIndex(q, hash) ELSE q
    IN IF q1.fSpentIndex THEN removeSpentIndex(q1, hash) ELSE q1

\* faulty variant: spenders are queued for the first queued hash only
RECURSIVE RemoveLoop_ChildrenOfFirstOnly(_, _, _, _)
RemoveLoop_ChildrenOfFirstOnly(p, txToRemove, removed, fRecursive) ==
    IF txToRemove = <<>> THEN [pool |-> p, removed |-> removed]
    ELSE LET hash == Head(txToRemove)
             rest == Tail(txToRemove)
         IN IF hash \notin DOMAIN p.mapTx
            THEN RemoveLoop_ChildrenOfFirstOnly(p, rest, removed, FALSE)
            ELSE RemoveLoop_ChildrenOfFirstOnly(RemoveEntry(p, hash),
                            IF fRecursive
                            THEN rest \o SpendersOf(p.mapNextTx, hash, 0, NVout(hash))
                            ELSE rest,
                            Append(removed, hash), FALSE)

\* faulty variant: nTransactionsUpdated is counted before the presence test
RECURSIVE RemoveLoop_CountsAbsent(_, _, _, _)
RemoveLoop_CountsAbsent(p, txToRemove, removed, fRecursive) ==
    IF txToRemove = <<>> THEN [pool |-> p, removed |-> removed]
    ELSE LET hash == Head(txToRemove)
             rest == Tail(txToRemove)
         IN IF hash \notin DOMAIN p.mapTx
            THEN RemoveLoop_CountsAbsent(
                     [p EXCEPT !.nTransactionsUpdated = @ + 1],
                     rest, removed, fRecursive)
            ELSE RemoveLoop_CountsAbsent(RemoveEntry(p, hash),
                            IF fRecursive
                            THEN rest \o SpendersOf(p.mapNextTx, hash, 0, NVout(hash))
                            ELSE rest,
                            Append(removed, hash), fRecursive)

\* while (!txToRemove.empty())
RECURSIVE RemoveLoop(_, _, _, _)
RemoveLoop(p, txToRemove, removed, fRecursive) ==
    IF txToRemove = <<>> THEN [pool |-> p, removed |-> removed]
    ELSE LET hash == Head(txToRemove)
             rest == Tail(txToRemove)
         IN IF hash \notin DOMAIN p.mapTx
            THEN RemoveLoop(p, rest, removed, fRecursive)
            ELSE RemoveLoop(RemoveEntry(p, hash),
                            IF fRecursive
                            THEN rest \o SpendersOf(p.mapNextTx, hash, 0, NVout(hash))
                            ELSE rest,
                            Append(removed, hash), fRecursive)

\* the work queue before the loop: origTx, and for a recursive removal of a
\* transaction that is not in the pool, the pool's spenders of its outputs
SeedQueue(p, origTx, fRecursive) ==
    IF fRecursive /\ origTx \notin DOMAIN p.mapTx
    THEN <<origTx>> \o SpendersOf(p.mapNextTx, origTx, 0, NVout(origTx))
    ELSE <<origTx>>

\* faulty variant: the removed transactions stay in the weighted tree
remove_KeepsTreeNodes(p, origTx, removed, fRecursive) ==
    LET r == RemoveLoop(p, SeedQueue(p, origTx, fRecursive), removed, fRecursive)
    IN [pool |-> r.pool, removed |-> r.removed]

\* remove(origTx, removed, fRecursive): the pool and the list afterwards
remove(p, origTx, removed, fRecursive) ==
    LET r == RemoveLoop(p, SeedQueue(p, origTx, fRecursive), removed, fRecursive)
    IN [pool |-> [r.pool EXCEPT !.weightedTxTree = TreeRemoveAll(@, r.removed)],
        removed |-> r.removed]

(***************************************************************************)
(* CTxMemPool::_clear / clear                                              *)
(***************************************************************************)
\* faulty variant: the prioritisation rows are dropped with the entries
clear_ErasesDeltas(p) ==
    [p EXCEPT !.mapTx = EmptyMap,
              !.mapNextTx = EmptyMap,
              !.mapDeltas = EmptyMap,
              !.totalTxSize = 0,
              !.cachedInnerUsage = 0,
              !.nTransactionsUpdated = @ + 1]

\* faulty variant: cachedInnerUsage is not reset
clear_KeepsUsage(p) ==
    [p EXCEPT !.mapTx = EmptyMap,
              !.mapNextTx = EmptyMap,
              !.totalTxSize = 0,
              !.nTransactionsUpdated = @ + 1]

clear(p) ==
    [p EXCEPT !.mapTx = EmptyMap,
              !.mapNextTx = EmptyMap,
              !.totalTxSize = 0,
              !.cachedInnerUsage = 0,
              !.nTransactionsUpdated = @ + 1]

(***************************************************************************)
(* Prioritisation                                                          *)
(***************************************************************************)
PrioritiseTransaction(p, hash, dPriorityDelta, nFeeDelta) ==
    LET old == IF hash \in DOMAIN p.mapDeltas THEN p.mapDeltas[hash] ELSE <<0, 0>>
        deltas == <<old[1] + dPriorityDelta, old[2] + nFeeDelta>>
    IN [p EXCEPT !.mapDeltas = MapPut(@, hash, deltas),
                 !.mapTx = IF hash \in DOMAIN @
                           THEN [@ EXCEPT ![hash].feeDelta = deltas[2]]
                           ELSE @]

ClearPrioritisation(p, hash) == [p EXCEPT !.mapDeltas = MapErase(@, hash)]

(***************************************************************************)
(* The pool after construction: CTxMemPool::CTxMemPool sets                *)
(* nTransactionsUpdated to 0 and calls _clear(), which increments it.      *)
(***************************************************************************)
InitPool ==
    [mapTx |-> EmptyMap, mapNextTx |-> EmptyMap,
     mapSproutNullifiers |-> EmptyMap, mapSaplingNullifiers |-> EmptyMap,
     mapOrchardNullifiers |-> EmptyMap, mapRecentlyAddedTx |-> EmptyMap,
     nRecentlyAddedSequence |-> 0, mapDeltas |-> EmptyMap,
     nTransactionsUpdated |-> 1, totalTxSize |-> 0, cachedInnerUsage |-> 0,
     weightedTxTree |-> NewTree(DefaultCostLimit),
     recentlyEvicted |-> NewEvicted(DefaultEvictionMemory),
     mapAddress |-> EmptyMap, mapAddressInserted |-> EmptyMap,
     mapSpent |-> EmptyMap, mapSpentInserted |-> EmptyMap,
     fAddressIndex |-> FALSE, fSpentIndex |-> FALSE,
     nCheckFrequency |-> 0, fault |-> "none"]

(***************************************************************************)
(* Dereferencing a pointer into a pool entry.  A row whose entry has been  *)
(* destroyed holds a dangling pointer: reading through it is undefined, so *)
(* the transaction read is any transaction, or the process dies.           *)
(***************************************************************************)
Dangling(p, ptx) == ptx \notin DOMAIN p.mapTx

DerefTx(p, ptx) == IF Dangling(p, ptx) THEN TxIds ELSE {ptx}

Died(p, removed) == {[pool |-> [p EXCEPT !.fault = "ub"], removed |-> removed]}

(***************************************************************************)
(* CTxMemPool::removeConflicts                                             *)
(***************************************************************************)
RECURSIVE FlattenNullifiers(_)
FlattenNullifiers(js) ==
    IF js = <<>> THEN <<>> ELSE Head(js).nullifiers \o FlattenNullifiers(Tail(js))

\* faulty variant: the orchard nullifiers are not looked up
ConflictLookups_NoOrchard(tx) ==
    [i \in DOMAIN Vin(tx) |-> [kind |-> "spend", key |-> Vin(tx)[i]]]
    \o [i \in DOMAIN FlattenNullifiers(TxTable[tx].vJoinSplit) |->
          [kind |-> SPROUT, key |-> FlattenNullifiers(TxTable[tx].vJoinSplit)[i]]]
    \o [i \in DOMAIN TxTable[tx].vShieldedSpend |->
          [kind |-> SAPLING, key |-> TxTable[tx].vShieldedSpend[i].nullifier]]

\* the lookups of removeConflicts(tx), in the order the code makes them
ConflictLookups(tx) ==
    [i \in DOMAIN Vin(tx) |-> [kind |-> "spend", key |-> Vin(tx)[i]]]
    \o [i \in DOMAIN FlattenNullifiers(TxTable[tx].vJoinSplit) |->
          [kind |-> SPROUT, key |-> FlattenNullifiers(TxTable[tx].vJoinSplit)[i]]]
    \o [i \in DOMAIN TxTable[tx].vShieldedSpend |->
          [kind |-> SAPLING, key |-> TxTable[tx].vShieldedSpend[i].nullifier]]
    \o [i \in DOMAIN TxTable[tx].orchardNullifiers |->
          [kind |-> ORCHARD, key |-> TxTable[tx].orchardNullifiers[i]]]

\* faulty variant: sapling nullifiers are looked up in the sprout map
LookupRow_SaplingInSprout(p, l) ==
    IF l.kind = "spend"
    THEN IF l.key \in DOMAIN p.mapNextTx THEN <<p.mapNextTx[l.key].ptx>> ELSE <<>>
    ELSE IF l.kind = SPROUT \/ l.kind = SAPLING
    THEN IF l.key \in DOMAIN p.mapSproutNullifiers
         THEN <<p.mapSproutNullifiers[l.key]>> ELSE <<>>
    ELSE IF l.key \in DOMAIN p.mapOrchardNullifiers
         THEN <<p.mapOrchardNullifiers[l.key]>> ELSE <<>>

\* the row a lookup finds: <<the pointer>>, or <<>> when there is no row
LookupRow(p, l) ==
    IF l.kind = "spend"
    THEN IF l.key \in DOMAIN p.mapNextTx THEN <<p.mapNextTx[l.key].ptx>> ELSE <<>>
    ELSE IF l.kind = SPROUT
    THEN IF l.key \in DOMAIN p.mapSproutNullifiers
         THEN <<p.mapSproutNullifiers[l.key]>> ELSE <<>>
    ELSE IF l.kind = SAPLING
    THEN IF l.key \in DOMAIN p.mapSaplingNullifiers
         THEN <<p.mapSaplingNullifiers[l.key]>> ELSE <<>>
    ELSE IF l.key \in DOMAIN p.mapOrchardNullifiers
         THEN <<p.mapOrchardNullifiers[l.key]>> ELSE <<>>

\* the outcomes of the lookups still to make: a set of [pool, removed]
RECURSIVE ConflictLoop(_, _, _, _)
ConflictLoop(p, tx, removed, lookups) ==
    IF lookups = <<>> THEN {[pool |-> p, removed |-> removed]}
    ELSE LET it == LookupRow(p, Head(lookups))
         IN IF it = <<>> THEN ConflictLoop(p, tx, removed, Tail(lookups))
            ELSE (IF Dangling(p, it[1]) THEN Died(p, removed) ELSE {})
                 \cup UNION {
                    IF txConflict # tx
                    THEN LET r == remove(p, txConflict, removed, TRUE)
                         IN ConflictLoop(r.pool, tx, r.removed, Tail(lookups))
                    ELSE ConflictLoop(p, tx, removed, Tail(lookups))
                    : txConflict \in DerefTx(p, it[1])}

removeConflicts(p, tx, removed) == ConflictLoop(p, tx, removed, ConflictLookups(tx))

(***************************************************************************)
(* CTxMemPool::removeForBlock                                              *)
(***************************************************************************)
\* the entries of the block's transactions that are in the pool
RECURSIVE BlockEntries(_, _)
BlockEntries(p, vtx) ==
    IF vtx = <<>> THEN <<>>
    ELSE IF Head(vtx) \in DOMAIN p.mapTx
         THEN <<[tx |-> Head(vtx), feeDelta |-> p.mapTx[Head(vtx)].feeDelta]>>
              \o BlockEntries(p, Tail(vtx))
         ELSE BlockEntries(p, Tail(vtx))

\* the second loop over vtx: a set of [pool, removed]
RECURSIVE BlockLoop(_, _, _)
BlockLoop(p, vtx, conflicts) ==
    IF vtx = <<>> \/ p.fault # "none" THEN {[pool |-> p, removed |-> conflicts]}
    ELSE LET tx == Head(vtx)
             dummy == remove(p, tx, <<>>, FALSE)
         IN UNION {BlockLoop(IF c.pool.fault = "none"
                             THEN ClearPrioritisation(c.pool, tx)
                             ELSE c.pool,
                             Tail(vtx), c.removed)
                   : c \in removeConflicts(dummy.pool, tx, conflicts)}

\* faulty variant: the entries are collected after the removals
removeForBlock_SnapshotAfterRemovals(p, vtx, conflicts) ==
    {[pool |-> r.pool, removed |-> r.removed,
      entries |-> BlockEntries(r.pool, vtx),
      processBlock |-> IF r.pool.fault = "none"
                       THEN <<[entries |-> BlockEntries(r.pool, vtx),
                               mapTx |-> r.pool.mapTx]>>
                       ELSE <<>>]
       : r \in BlockLoop(p, vtx, conflicts)}

\* a set of [pool, removed (the conflicts), entries (the local vector),
\* processBlock (the calls of minerPolicyEstimator->processBlock: what each
\* is handed, and mapTx at the time of the call)]
removeForBlock(p, vtx, conflicts) ==
    {[pool |-> r.pool, removed |-> r.removed,
      entries |-> BlockEntries(p, vtx),
      processBlock |-> IF r.pool.fault = "none"
                       THEN <<[entries |-> BlockEntries(p, vtx),
                               mapTx |-> r.pool.mapTx]>>
                       ELSE <<>>]
       : r \in BlockLoop(p, vtx, conflicts)}

(***************************************************************************)
(* The sweeps: scan mapTx, then remove each collected transaction          *)
(* recursively.  mapTx is scanned in the order of its first index.         *)
(***************************************************************************)
IterOrder(p) == SortedSeq(DOMAIN p.mapTx)

\* "for tx in transactionsToRemove: remove(tx, removed, true)"
RECURSIVE RemoveEach(_, _)
RemoveEach(p, transactionsToRemove) ==
    IF transactionsToRemove = <<>> THEN p
    ELSE RemoveEach(remove(p, Head(transactionsToRemove), <<>>, TRUE).pool,
                    Tail(transactionsToRemove))

COINBASE_MATURITY == 100

\* CheckFinalTx(tx, flags) for a chain whose next block has height `height`
CheckFinalTx(tx, height) ==
    TxTable[tx].nLockTime = 0 \/ TxTable[tx].nLockTime < height

\* the coin views handed to removeForReorg: txid -> the coins AccessCoins gives
CoinViews ==
    {[h \in {6} |-> [fCoinBase |-> TRUE, nHeight |-> 1]],
     [h \in {1, 2, 6} |-> [fCoinBase |-> (h = 6), nHeight |-> 1]]}

\* the scan of removeForReorg at input i of tx: the parent is not in the pool
\* and AccessCoins gives no coins
CoinMissing(p, pcoins, tx, i) ==
    /\ Vin(tx)[i][1] \notin DOMAIN p.mapTx
    /\ Vin(tx)[i][1] \notin DOMAIN pcoins

\* the scan at input i of tx pushes tx and breaks: the parent is not in the
\* pool, and the coins are missing or an immature coinbase
InputCollects(p, pcoins, nMemPoolHeight, tx, i) ==
    LET hash == Vin(tx)[i][1]
    IN /\ hash \notin DOMAIN p.mapTx
       /\ \/ hash \notin DOMAIN pcoins
          \/ /\ pcoins[hash].fCoinBase
             /\ nMemPoolHeight - pcoins[hash].nHeight < COINBASE_MATURITY

\* faulty variant: the parents in the pool are looked up in the view too
ReorgCollects_ChecksPoolParents(p, pcoins, nMemPoolHeight, finalHeight, tx) ==
    IF ~CheckFinalTx(tx, finalHeight) THEN TRUE
    ELSE /\ TxTable[tx].spendsCoinbase
         /\ \E i \in DOMAIN Vin(tx) :
               LET hash == Vin(tx)[i][1]
               IN \/ hash \notin DOMAIN pcoins
                  \/ /\ pcoins[hash].fCoinBase
                     /\ nMemPoolHeight - pcoins[hash].nHeight < COINBASE_MATURITY

\* whether the scan of removeForReorg collects tx
ReorgCollects(p, pcoins, nMemPoolHeight, finalHeight, tx) ==
    IF ~CheckFinalTx(tx, finalHeight) THEN TRUE
    ELSE /\ TxTable[tx].spendsCoinbase
         /\ \E i \in DOMAIN Vin(tx) :
               InputCollects(p, pcoins, nMemPoolHeight, tx, i)

\* the assert of the scan: with sanity checks on, the coins of every input
\* the scan gets to exist; the inputs after the one that collects tx are not
\* looked at
ReorgAsserts(p, pcoins, nMemPoolHeight, finalHeight) ==
    /\ p.nCheckFrequency # 0
    /\ \E tx \in DOMAIN p.mapTx :
          /\ CheckFinalTx(tx, finalHeight)
          /\ TxTable[tx].spendsCoinbase
          /\ \E i \in DOMAIN Vin(tx) :
                /\ CoinMissing(p, pcoins, tx, i)
                /\ \A j \in 1..(i - 1) :
                      ~InputCollects(p, pcoins, nMemPoolHeight, tx, j)

removeForReorg(p, pcoins, nMemPoolHeight, finalHeight) ==
    IF ReorgAsserts(p, pcoins, nMemPoolHeight, finalHeight)
    THEN [p EXCEPT !.fault = "assert"]
    ELSE RemoveEach(p, SelectSeq(IterOrder(p),
            LAMBDA tx : ReorgCollects(p, pcoins, nMemPoolHeight, finalHeight, tx)))

ShieldedTypes == {SPROUT, SAPLING, ORCHARD}

\* faulty variant: the joinsplit anchors are compared for both types
AnchorCollects_JoinSplitsOnly(tx, invalidRoot, type) ==
    \E j \in DOMAIN TxTable[tx].vJoinSplit :
       TxTable[tx].vJoinSplit[j].anchor = invalidRoot

\* whether the scan of removeWithAnchor collects tx (type is SPROUT or SAPLING)
AnchorCollects(tx, invalidRoot, type) ==
    IF type = SPROUT
    THEN \E j \in DOMAIN TxTable[tx].vJoinSplit :
            TxTable[tx].vJoinSplit[j].anchor = invalidRoot
    ELSE \E j \in DOMAIN TxTable[tx].vShieldedSpend :
            TxTable[tx].vShieldedSpend[j].anchor = invalidRoot

\* the switch of the scan reaches its default branch: it is inside the loop
\* over mapTx, so an empty pool never reaches it
AnchorThrows(p, type) == type \notin {SPROUT, SAPLING} /\ DOMAIN p.mapTx # {}

\* [pool, threw]
removeWithAnchor(p, invalidRoot, type) ==
    IF AnchorThrows(p, type) THEN [pool |-> p, threw |-> TRUE]
    ELSE [pool |-> RemoveEach(p, SelectSeq(IterOrder(p),
                      LAMBDA tx : type \in {SPROUT, SAPLING}
                                  /\ AnchorCollects(tx, invalidRoot, type))),
          threw |-> FALSE]

\* IsExpiredTx(tx, nBlockHeight)
IsExpiredTx(tx, nBlockHeight) ==
    TxTable[tx].nExpiryHeight # 0 /\ nBlockHeight > TxTable[tx].nExpiryHeight

\* faulty variant: the scan stops at the first expired transaction
removeExpired_FirstOnly(p, nBlockHeight) ==
    LET expired ==
            SelectSeq(IterOrder(p), LAMBDA tx : IsExpiredTx(tx, nBlockHeight))
        transactionsToRemove ==
            IF expired = <<>> THEN <<>> ELSE <<Head(expired)>>
    IN [pool |-> RemoveEach(p, transactionsToRemove), ids |-> transactionsToRemove]

\* [pool, ids]
removeExpired(p, nBlockHeight) ==
    LET transactionsToRemove ==
            SelectSeq(IterOrder(p), LAMBDA tx : IsExpiredTx(tx, nBlockHeight))
    IN [pool |-> RemoveEach(p, transactionsToRemove), ids |-> transactionsToRemove]

removeWithoutBranchId(p, nMemPoolBranchId) ==
    RemoveEach(p, SelectSeq(IterOrder(p),
                     LAMBDA tx : TxTable[tx].nBranchId # nMemPoolBranchId))

(***************************************************************************)
(* Size management                                                         *)
(***************************************************************************)
SetMempoolCostLimit(p, totalCostLimit, evictionMemorySeconds) ==
    [p EXCEPT !.recentlyEvicted = NewEvicted(evictionMemorySeconds),
              !.weightedTxTree = NewTree(totalCostLimit)]

\* weightedTxTree->maybeDropRandom(): the txids it can return (it returns
\* none when the total is within the capacity); the one returned is dropped
DropCandidates(tree) ==
    IF TreeTotal(tree) > tree.capacity THEN DOMAIN tree.nodes ELSE {}

\* IsRecentlyEvicted(txId)
IsRecentlyEvicted(p, txId) == txId \in p.recentlyEvicted.ids

\* faulty variant: the victim is not recorded in recentlyEvicted
EvictOne_NotRecorded(p, txId) ==
    LET q == [p EXCEPT !.weightedTxTree = TreeRemove(@, txId)]
    IN (IF Dangling(q, txId) THEN {[q EXCEPT !.fault = "ub"]} ELSE {})
       \cup {remove(q, tx, <<>>, TRUE).pool : tx \in DerefTx(q, txId)}

\* one iteration of the loop of EnsureSizeLimit, maybeDropRandom having
\* returned (and dropped) txId: the pools it can leave
EvictOne(p, txId) ==
    LET q == [p EXCEPT !.weightedTxTree = TreeRemove(@, txId),
                       !.recentlyEvicted.ids = @ \cup {txId}]
    IN \* mapTx.find(txId)->GetTx(): the end iterator when txId is not there
       (IF Dangling(q, txId) THEN {[q EXCEPT !.fault = "ub"]} ELSE {})
       \cup {remove(q, tx, <<>>, TRUE).pool : tx \in DerefTx(q, txId)}

\* the outcomes of EnsureSizeLimit: a set of [pool, removed (the victims)]
RECURSIVE EnsureSizeLimit(_, _)
EnsureSizeLimit(p, victims) ==
    IF DropCandidates(p.weightedTxTree) = {}
    THEN {[pool |-> p, removed |-> victims]}
    ELSE UNION {
        UNION {IF q.fault = "none"
               THEN EnsureSizeLimit(q, Append(victims, txId))
               ELSE {[pool |-> q, removed |-> Append(victims, txId)]}
               : q \in EvictOne(p, txId)}
        : txId \in DropCandidates(p.weightedTxTree)}

(***************************************************************************)
(* Calls.  last is a history variable.  A call is either remembered in it  *)
(* (op, arguments, the pool before, what the call handed back), and the    *)
(* run is then followed no further, or it is not remembered and the run    *)
(* goes on: every state after a remembered call is also reached with the   *)
(* call not remembered.                                                    *)
(***************************************************************************)
NoCall == [op |-> "none", arg |-> <<>>, pre |-> InitPool, out |-> <<>>]

Init ==
    /\ mapTx = InitPool.mapTx
    /\ mapNextTx = InitPool.mapNextTx
    /\ mapSproutNullifiers = InitPool.mapSproutNullifiers
    /\ mapSaplingNullifiers = InitPool.mapSaplingNullifiers
    /\ mapOrchardNullifiers = InitPool.mapOrchardNullifiers
    /\ mapRecentlyAddedTx = InitPool.mapRecentlyAddedTx
    /\ nRecentlyAddedSequence = InitPool.nRecentlyAddedSequence
    /\ mapDeltas = InitPool.mapDeltas
    /\ nTransactionsUpdated = InitPool.nTransactionsUpdated
    /\ totalTxSize = InitPool.totalTxSize
    /\ cachedInnerUsage = InitPool.cachedInnerUsage
    /\ weightedTxTree = InitPool.weightedTxTree
    /\ recentlyEvicted = InitPool.recentlyEvicted
    /\ mapAddress = InitPool.mapAddress
    /\ mapAddressInserted = InitPool.mapAddressInserted
    /\ mapSpent = InitPool.mapSpent
    /\ mapSpentInserted = InitPool.mapSpentInserted
    /\ fAddressIndex = InitPool.fAddressIndex
    /\ fSpentIndex = InitPool.fSpentIndex
    /\ nCheckFrequency = InitPool.nCheckFrequency
    /\ fault = InitPool.fault
    /\ last = NoCall

\* calls are made while the process lives, and explored within the bounds
Running ==
    /\ fault = "none"
    /\ last.op = "none"
    /\ nTransactionsUpdated < MaxUpdated

Call(op, arg, q, out) ==
    /\ SetPool(q)
    /\ \E remember \in BOOLEAN :
          last' = IF remember
                  THEN [op |-> op, arg |-> arg, pre |-> Pool, out |-> out]
                  ELSE NoCall

\* the blocks connected in the model
Blocks == {<<4>>, <<1>>, <<1, 2>>, <<5>>, <<2, 4>>}

MempoolHeights == {5, 200}

AnchorRoots == {1, 2}

ExpiryHeights == {5, 6}

BranchIds == {1, 2}

CostLimits == {4}

\* the (priority delta, fee delta) pairs handed to PrioritiseTransaction
PrioInputs == {<<1, 1>>, <<0 - 1, 0 - 1>>}

\* the txids prioritised in the model
PrioTxIds == {1}

AddUnchecked ==
    /\ Running
    /\ \E t \in PoolTxIds :
           /\ Admissible(Pool, t)
           /\ Call("addUnchecked", <<t>>, addUnchecked(Pool, t, t), <<>>)

Remove ==
    /\ Running
    /\ \E t \in TxIds, fRecursive \in BOOLEAN :
           LET r == remove(Pool, t, <<>>, fRecursive)
           IN Call("remove", <<t, fRecursive>>, r.pool, r.removed)

RemoveConflicts ==
    /\ Running
    /\ \E t \in TxIds :
           \E r \in removeConflicts(Pool, t, <<>>) :
               Call("removeConflicts", <<t>>, r.pool, r.removed)

RemoveForBlock ==
    /\ Running
    /\ \E vtx \in Blocks :
           \E r \in removeForBlock(Pool, vtx, <<>>) :
               Call("removeForBlock", <<vtx>>, r.pool,
                    [conflicts |-> r.removed, entries |-> r.entries,
                     processBlock |-> r.processBlock])

RemoveForReorg ==
    /\ Running
    /\ \E pcoins \in CoinViews, nMemPoolHeight \in MempoolHeights :
           Call("removeForReorg", <<pcoins, nMemPoolHeight>>,
                removeForReorg(Pool, pcoins, nMemPoolHeight, nMemPoolHeight), <<>>)

RemoveWithAnchor ==
    /\ Running
    /\ \E invalidRoot \in AnchorRoots, type \in ShieldedTypes \cup {"OTHER"} :
           LET r == removeWithAnchor(Pool, invalidRoot, type)
           IN Call("removeWithAnchor", <<invalidRoot, type>>, r.pool,
                   [threw |-> r.threw])

RemoveExpired ==
    /\ Running
    /\ \E nBlockHeight \in ExpiryHeights :
           LET r == removeExpired(Pool, nBlockHeight)
           IN Call("removeExpired", <<nBlockHeight>>, r.pool, r.ids)

RemoveWithoutBranchId ==
    /\ Running
    /\ \E nMemPoolBranchId \in BranchIds :
           Call("removeWithoutBranchId", <<nMemPoolBranchId>>,
                removeWithoutBranchId(Pool, nMemPoolBranchId), <<>>)

Clear ==
    /\ Running
    /\ Call("clear", <<>>, clear(Pool), <<>>)

Prioritise ==
    /\ Running
    /\ \E hash \in PrioTxIds, d \in PrioInputs :
           LET q == PrioritiseTransaction(Pool, hash, d[1], d[2])
           IN /\ \A i \in {1, 2} : q.mapDeltas[hash][i] \in (0 - MaxDelta)..MaxDelta
              /\ Call("PrioritiseTransaction", <<hash, d[1], d[2]>>, q, <<>>)

ClearPrio ==
    /\ Running
    /\ \E hash \in PrioTxIds :
           Call("ClearPrioritisation", <<hash>>, ClearPrioritisation(Pool, hash), <<>>)

SetCostLimit ==
    /\ Running
    /\ \E totalCostLimit \in CostLimits :
           Call("SetMempoolCostLimit", <<totalCostLimit>>,
                SetMempoolCostLimit(Pool, totalCostLimit, DefaultEvictionMemory), <<>>)

EnsureLimit ==
    /\ Running
    /\ \E r \in EnsureSizeLimit(Pool, <<>>) :
           Call("EnsureSizeLimit", <<>>, r.pool, r.removed)

\* addAddressIndex / addSpentIndex: called for an entry of the pool when the
\* index is enabled
AddAddressIndex ==
    /\ Running
    /\ fAddressIndex
    /\ \E t \in DOMAIN mapTx :
           Call("addAddressIndex", <<t>>, addAddressIndex(Pool, t), <<>>)

AddSpentIndex ==
    /\ Running
    /\ fSpentIndex
    /\ \E t \in DOMAIN mapTx :
           Call("addSpentIndex", <<t>>, addSpentIndex(Pool, t), <<>>)

Next ==
    \/ AddUnchecked
    \/ Remove
    \/ RemoveConflicts
    \/ RemoveForBlock
    \/ RemoveForReorg
    \/ RemoveWithAnchor
    \/ RemoveExpired
    \/ RemoveWithoutBranchId
    \/ Clear
    \/ Prioritise
    \/ ClearPrio
    \/ SetCostLimit
    \/ EnsureLimit

Spec == Init /\ [][Next]_vars

(***************************************************************************)
(* The pool of a node run with the insight explorer indexes: the two flags *)
(* are set at start-up, and the indexes are filled after addUnchecked.     *)
(***************************************************************************)
InitInsight ==
    /\ fAddressIndex \in BOOLEAN
    /\ fSpentIndex \in BOOLEAN
    /\ mapTx = InitPool.mapTx
    /\ mapNextTx = InitPool.mapNextTx
    /\ mapSproutNullifiers = InitPool.mapSproutNullifiers
    /\ mapSaplingNullifiers = InitPool.mapSaplingNullifiers
    /\ mapOrchardNullifiers = InitPool.mapOrchardNullifiers
    /\ mapRecentlyAddedTx = InitPool.mapRecentlyAddedTx
    /\ nRecentlyAddedSequence = InitPool.nRecentlyAddedSequence
    /\ mapDeltas = InitPool.mapDeltas
    /\ nTransactionsUpdated = InitPool.nTransactionsUpdated
    /\ totalTxSize = InitPool.totalTxSize
    /\ cachedInnerUsage = InitPool.cachedInnerUsage
    /\ weightedTxTree = InitPool.weightedTxTree
    /\ recentlyEvicted = InitPool.recentlyEvicted
    /\ mapAddress = InitPool.mapAddress
    /\ mapAddressInserted = InitPool.mapAddressInserted
    /\ mapSpent = InitPool.mapSpent
    /\ mapSpentInserted = InitPool.mapSpentInserted
    /\ nCheckFrequency = InitPool.nCheckFrequency
    /\ fault = InitPool.fault
    /\ last = NoCall

NextInsight ==
    \/ AddUnchecked
    \/ AddAddressIndex
    \/ AddSpentIndex
    \/ Remove
    \/ RemoveConflicts
    \/ Clear

SpecInsight == InitInsight /\ [][NextInsight]_vars

(***************************************************************************)
(* EnsureSizeLimit, one loop iteration per step.  The caller holds cs, so  *)
(* no other call runs between the iterations; the thread in the loop keeps *)
(* running, which is the fairness of SpecEvict.  While the loop runs       *)
(* last.op is LOOP and last.out lists the victims so far.                  *)
(***************************************************************************)
LOOP == "EnsureSizeLimit:loop"
DONE == "EnsureSizeLimit:done"

EnsureEnter ==
    /\ Running
    /\ SetPool(Pool)
    /\ last' = [op |-> LOOP, arg |-> <<>>, pre |-> Pool, out |-> <<>>]

EnsureIterate ==
    /\ last.op = LOOP
    /\ fault = "none"
    /\ \E txId \in DropCandidates(weightedTxTree) :
          \E q \in EvictOne(Pool, txId) :
             /\ SetPool(q)
             /\ last' = [last EXCEPT !.out = Append(@, txId)]

EnsureLeave ==
    /\ last.op = LOOP
    /\ fault = "none"
    /\ DropCandidates(weightedTxTree) = {}
    /\ SetPool(Pool)
    /\ last' = [last EXCEPT !.op = DONE]

NextEvict ==
    \/ AddUnchecked
    \/ Remove
    \/ Clear
    \/ SetCostLimit
    \/ EnsureEnter
    \/ EnsureIterate
    \/ EnsureLeave

SpecEvict ==
    /\ Init
    /\ [][NextEvict]_vars
    /\ WF_vars(EnsureIterate)
    /\ WF_vars(EnsureLeave)

(***************************************************************************)
(* CCoinsViewMemPool: the coins view that lays the pool over a base view.  *)
(* Coins are [tx, nHeight, unspent]: the transaction, the height it was    *)
(* included at, and the indices of its outputs that are not yet spent.     *)
(***************************************************************************)
MEMPOOL_HEIGHT == 2147483647

\* CCoins(tx, nHeight): the coins of a whole transaction
CCoins(tx, nHeight) ==
    [tx |-> tx, nHeight |-> nHeight, unspent |-> 0 .. (NVout(tx) - 1)]

\* CCoins::IsPruned(): no output is left
IsPruned(coins) == coins.unspent = {}

\* the value of a CCoins the callee has not written
NoCoins == [tx |-> 0, nHeight |-> 0, unspent |-> {}]

\* the base views of the model: txid -> coins.  The second holds a pruned
\* entry for 1, a partly spent entry for 2 and a spent-out entry for 3.
BaseViews ==
    {EmptyMap,
     [h \in {1, 2, 3, 6} |->
        [tx |-> h, nHeight |-> 3,
         unspent |-> IF h \in {1, 3} THEN {} ELSE {0}]]}

\* faulty variant: the base view is asked first
GetCoins_BaseFirst(p, base, txid) ==
    IF txid \in DOMAIN base /\ ~IsPruned(base[txid])
    THEN [ok |-> TRUE, coins |-> base[txid]]
    ELSE IF txid \in DOMAIN p.mapTx
    THEN [ok |-> TRUE, coins |-> CCoins(txid, MEMPOOL_HEIGHT)]
    ELSE [ok |-> FALSE,
          coins |-> IF txid \in DOMAIN base THEN base[txid] ELSE NoCoins]

\* CCoinsViewMemPool::GetCoins(txid, coins): what it returns and what it
\* leaves in coins
GetCoins(p, base, txid) ==
    IF txid \in DOMAIN p.mapTx
    THEN [ok |-> TRUE, coins |-> CCoins(txid, MEMPOOL_HEIGHT)]
    ELSE IF txid \in DOMAIN base
    THEN [ok |-> ~IsPruned(base[txid]), coins |-> base[txid]]
    ELSE [ok |-> FALSE, coins |-> NoCoins]

ViewGetCoins ==
    /\ Running
    /\ \E base \in BaseViews, txid \in TxIds :
          Call("GetCoins", <<base, txid>>, Pool, GetCoins(Pool, base, txid))

NextView ==
    \/ AddUnchecked
    \/ Remove
    \/ Clear
    \/ ViewGetCoins

SpecView == Init /\ [][NextView]_vars

(***************************************************************************)
(* HasNoInputsOf called by one thread while another thread calls the pool. *)
(* HasNoInputsOf takes no lock itself: each exists(hash) it calls locks cs *)
(* for that one lookup, and cs is free between two lookups, so the calls   *)
(* of the other thread, which hold cs from start to end, run in between.   *)
(* While the call runs last.op is HNI_RUN, last.arg the transaction and    *)
(* last.out the position of the caller: the next input to look up, whether *)
(* it holds cs, and the answers an atomic call would have given in the     *)
(* pools there have been since the call began.                             *)
(***************************************************************************)
HNI_RUN == "HasNoInputsOf:run"
HNI_DONE == "HasNoInputsOf:done"

\* HasNoInputsOf(tx) run on one pool state
HasNoInputsOf(p, tx) ==
    \A i \in DOMAIN Vin(tx) : Vin(tx)[i][1] \notin DOMAIN p.mapTx

\* the transactions HasNoInputsOf is asked about
HasNoInputsArgs == {3, 5}

HasNoInputsEnter ==
    /\ Running
    /\ \E tx \in HasNoInputsArgs :
          /\ SetPool(Pool)
          /\ last' = [op |-> HNI_RUN, arg |-> <<tx>>, pre |-> Pool,
                      out |-> [i |-> 1, cs |-> FALSE, result |-> TRUE,
                               atomic |-> {HasNoInputsOf(Pool, tx)}]]

\* one turn of the loop: exists(tx.vin[i].prevout.hash), under cs for the
\* lookup only; "return false" on a hit, "return true" after the last input
HasNoInputsStep ==
    /\ last.op = HNI_RUN
    /\ fault = "none"
    /\ SetPool(Pool)
    /\ LET tx == last.arg[1]
           i == last.out.i
       IN last' = IF i > Len(Vin(tx))
                  THEN [last EXCEPT !.op = HNI_DONE, !.out.result = TRUE]
                  ELSE IF Vin(tx)[i][1] \in DOMAIN mapTx
                       THEN [last EXCEPT !.op = HNI_DONE, !.out.result = FALSE]
                       ELSE [last EXCEPT !.out.i = i + 1]

\* a call of the other thread while HasNoInputsOf runs: it needs cs
OtherThread(q) ==
    /\ last.op = HNI_RUN
    /\ ~last.out.cs
    /\ fault = "none"
    /\ nTransactionsUpdated < MaxUpdated
    /\ SetPool(q)
    /\ last' = [last EXCEPT
                  !.out.atomic = @ \cup {HasNoInputsOf(q, last.arg[1])}]

OtherAddUnchecked ==
    \E t \in PoolTxIds :
       /\ Admissible(Pool, t)
       /\ OtherThread(addUnchecked(Pool, t, t))

OtherRemove ==
    \E t \in PoolTxIds, fRecursive \in BOOLEAN :
       /\ t \in DOMAIN mapTx
       /\ OtherThread(remove(Pool, t, <<>>, fRecursive).pool)

NextThreads ==
    \/ AddUnchecked
    \/ Remove
    \/ HasNoInputsEnter
    \/ HasNoInputsStep
    \/ OtherAddUnchecked
    \/ OtherRemove

SpecThreads == Init /\ [][NextThreads]_vars

(***************************************************************************)
(* CTxMemPool::DrainRecentlyAdded, the wallet's notification queue.        *)
(***************************************************************************)
\* "for kv in mapRecentlyAddedTx: txs.push_back(*(kv.second))" over the rows
\* keys, in key order: the lists it can build.  A row whose entry has been
\* destroyed is read through a dangling pointer.
RECURSIVE DrainCopies(_, _)
DrainCopies(p, keys) ==
    IF keys = <<>> THEN {<<>>}
    ELSE {<<tx>> \o rest : tx \in DerefTx(p, p.mapRecentlyAddedTx[Head(keys)]),
                          rest \in DrainCopies(p, Tail(keys))}

\* the rows of mapRecentlyAddedTx that point to a destroyed entry
DrainDangles(p) ==
    \E k \in DOMAIN p.mapRecentlyAddedTx : Dangling(p, p.mapRecentlyAddedTx[k])

\* [pool, txs, recentlyAddedSequence]
DrainRecentlyAdded(p) ==
    LET q == [p EXCEPT !.mapRecentlyAddedTx = EmptyMap]
    IN {[pool |-> q, txs |-> txs,
         recentlyAddedSequence |-> p.nRecentlyAddedSequence]
          : txs \in DrainCopies(p, SortedSeq(DOMAIN p.mapRecentlyAddedTx))}
       \cup (IF DrainDangles(p)
             THEN {[pool |-> [p EXCEPT !.fault = "ub"], txs |-> <<>>,
                    recentlyAddedSequence |-> p.nRecentlyAddedSequence]}
             ELSE {})

Drain ==
    /\ Running
    /\ \E r \in DrainRecentlyAdded(Pool) :
          Call("DrainRecentlyAdded", <<>>, r.pool,
               [txs |-> r.txs, recentlyAddedSequence |-> r.recentlyAddedSequence])

NextDrain ==
    \/ AddUnchecked
    \/ Remove
    \/ RemoveExpired
    \/ Clear
    \/ Drain

SpecDrain == Init /\ [][NextDrain]_vars

(***************************************************************************)
(* addUnchecked called without the checks of AcceptToMemoryPool: it is a   *)
(* public method that "adds to the memory pool without checking anything", *)
(* so it is also callable for a transaction whose nullifiers or inputs     *)
(* already have rows.                                                      *)
(***************************************************************************)
AddUncheckedAny ==
    /\ Running
    /\ \E t \in PoolTxIds :
           /\ t \notin DOMAIN mapTx
           /\ Call("addUnchecked", <<t>>, addUnchecked(Pool, t, t), <<>>)

NextUnchecked ==
    \/ AddUncheckedAny
    \/ Remove

SpecUnchecked == Init /\ [][NextUnchecked]_vars

(***************************************************************************)
(* CTxMemPool::check.  setSanityCheck turns the checker on; with           *)
(* nCheckFrequency at its maximum every call runs.  The scan of mapTx and  *)
(* what follows the waiting loop are each one step, the waiting loop is    *)
(* one step per turn; cs is held from the scan on, so no other call runs   *)
(* in between.  While the loop runs last.op is CHECK_LOOP, last.arg the    *)
(* base view and the order in which mapTx is iterated, and last.out the    *)
(* locals: the queue, the replica of the view and the step counter.        *)
(***************************************************************************)
\* stands for numeric_limits<uint32_t>::max(), which is beyond the integers
\* of the model checker; check only tells 0, the maximum and the rest apart
MaxCheckFrequency == 2147483647

\* setSanityCheck(1.0)
setSanityCheck(p) == [p EXCEPT !.nCheckFrequency = MaxCheckFrequency]

\* the base views handed to check: the unspent outputs of the chain's
\* transactions, the nullifiers the chain has seen, the anchors it knows
CheckViews ==
    {[coins |-> [h \in {6} |-> {0, 1}],
      sproutNullifiers |-> {}, saplingNullifiers |-> {},
      sproutAnchors |-> {1, 2}, saplingAnchors |-> {1, 2}],
     [coins |-> [h \in {1, 6} |-> IF h = 6 THEN {1} ELSE {0, 1}],
      sproutNullifiers |-> {}, saplingNullifiers |-> {},
      sproutAnchors |-> {1, 2}, saplingAnchors |-> {1, 2}]}

\* coins && coins->IsAvailable(n)
IsAvailable(coins, prevout) ==
    prevout[1] \in DOMAIN coins /\ prevout[2] \in coins[prevout[1]]

\* CCoinsViewCache::HaveInputs(tx)
HaveInputs(coins, tx) ==
    \A i \in DOMAIN Vin(tx) : IsAvailable(coins, Vin(tx)[i])

\* Consensus::CheckTxInputs(tx, ...) for the transactions of the model, whose
\* values balance: the inputs are there
CheckTxInputs(coins, tx) == HaveInputs(coins, tx)

\* UpdateCoins(tx, view, height): the inputs are spent, the outputs added
UpdateCoins(coins, tx) ==
    LET spent == [h \in DOMAIN coins |->
                    coins[h] \ {po[2] : po \in {x \in Prevouts(tx) : x[1] = h}}]
    IN MapPut(spent, tx, 0 .. (NVout(tx) - 1))

\* the asserts of the scan for one entry (lines 558-599)
EntryAsserts(p, view, tx) ==
    /\ \A i \in DOMAIN Vin(tx) :
          LET prevout == Vin(tx)[i]
          IN /\ IF prevout[1] \in DOMAIN p.mapTx
                THEN NVout(prevout[1]) > prevout[2]
                ELSE IsAvailable(view.coins, prevout)
             /\ prevout \in DOMAIN p.mapNextTx
             /\ p.mapNextTx[prevout].ptx = tx
             /\ p.mapNextTx[prevout].n = i - 1
    /\ SproutNullifiers(tx) \cap view.sproutNullifiers = {}
    /\ \A j \in DOMAIN TxTable[tx].vJoinSplit :
          TxTable[tx].vJoinSplit[j].anchor \in view.sproutAnchors
    /\ \A j \in DOMAIN TxTable[tx].vShieldedSpend :
          TxTable[tx].vShieldedSpend[j].anchor \in view.saplingAnchors
    /\ SaplingNullifiers(tx) \cap view.saplingNullifiers = {}

\* fDependsWait: some input's parent is in the pool
DependsWait(p, tx) == \E i \in DOMAIN Vin(tx) : Vin(tx)[i][1] \in DOMAIN p.mapTx

\* the scan of mapTx in the given order: [ok, coins, waitingOnDependants]
RECURSIVE ScanEntries(_, _, _, _, _)
ScanEntries(p, view, order, coins, waiting) ==
    IF order = <<>> THEN [ok |-> TRUE, coins |-> coins, waiting |-> waiting]
    ELSE LET tx == Head(order)
         IN IF ~EntryAsserts(p, view, tx)
            THEN [ok |-> FALSE, coins |-> coins, waiting |-> waiting]
            ELSE IF DependsWait(p, tx)
            THEN ScanEntries(p, view, Tail(order), coins, Append(waiting, tx))
            ELSE IF ~CheckTxInputs(coins, tx)
            THEN [ok |-> FALSE, coins |-> coins, waiting |-> waiting]
            ELSE ScanEntries(p, view, Tail(order), UpdateCoins(coins, tx), waiting)

\* faulty variant: the no-progress assert allows one requeue less
WaitStep_OffByOne(waiting, coins, steps) ==
    LET entry == Head(waiting)
    IN IF ~HaveInputs(coins, entry)
       THEN [ok |-> steps + 1 < Len(waiting) - 1, coins |-> coins,
             waiting |-> Append(Tail(waiting), entry), steps |-> steps + 1]
       ELSE [ok |-> CheckTxInputs(coins, entry),
             coins |-> UpdateCoins(coins, entry),
             waiting |-> Tail(waiting), steps |-> 0]

\* one turn of the waiting loop (lines 610-623): [ok, coins, waiting, steps]
WaitStep(waiting, coins, steps) ==
    LET entry == Head(waiting)
    IN IF ~HaveInputs(coins, entry)
       THEN [ok |-> steps + 1 < Len(waiting), coins |-> coins,
             waiting |-> Append(Tail(waiting), entry), steps |-> steps + 1]
       ELSE [ok |-> CheckTxInputs(coins, entry),
             coins |-> UpdateCoins(coins, entry),
             waiting |-> Tail(waiting), steps |-> 0]

\* what reading one row's pointer can lead to: a row of a live entry passes
\* its asserts; a dangling pointer is undefined, the process dies or an
\* assert fails, or the memory has been reused by a live entry and the
\* asserts pass
RowOutcomes(p, ptx) ==
    IF ~Dangling(p, ptx) THEN {"pass"}
    ELSE {"ub", "assert"} \cup (IF DOMAIN p.mapTx # {} THEN {"pass"} ELSE {})

\* the outcomes of a loop over the rows of a pointer map
RowsOutcomes(p, m) ==
    (IF \A k \in DOMAIN m : "pass" \in RowOutcomes(p, m[k]) THEN {"pass"} ELSE {})
    \cup UNION {RowOutcomes(p, m[k]) \ {"pass"} : k \in DOMAIN m}

\* the loop over mapNextTx (lines 625-632)
CheckSpends(p) ==
    IF \E k \in DOMAIN p.mapNextTx :
          /\ ~Dangling(p, p.mapNextTx[k].ptx)
          /\ \/ Len(Vin(p.mapNextTx[k].ptx)) <= p.mapNextTx[k].n
             \/ Vin(p.mapNextTx[k].ptx)[p.mapNextTx[k].n + 1] # k
    THEN {"assert"}
    ELSE RowsOutcomes(p, [k \in DOMAIN p.mapNextTx |-> p.mapNextTx[k].ptx])

\* the nullifier map checkNullifiers(type) walks
MapToUse(p, type) ==
    IF type = SPROUT THEN p.mapSproutNullifiers
    ELSE IF type = SAPLING THEN p.mapSaplingNullifiers
    ELSE p.mapOrchardNullifiers

checkNullifiers(p, type) == RowsOutcomes(p, MapToUse(p, type))

\* assert(totalTxSize == checkTotal); assert(innerUsage == cachedInnerUsage)
CheckTotals(p) ==
    IF /\ p.totalTxSize
            = SumOver(DOMAIN p.mapTx, [t \in DOMAIN p.mapTx |-> TxTable[t].nTxSize])
       /\ p.cachedInnerUsage
            = SumOver(DOMAIN p.mapTx, [t \in DOMAIN p.mapTx |-> TxTable[t].nUsageSize])
    THEN {"pass"} ELSE {"assert"}

\* a stage and then what follows it
AndThen(first, rest) ==
    (first \ {"pass"}) \cup (IF "pass" \in first THEN rest ELSE {})

\* check after its waiting loop (lines 625-649): the outcomes
CheckTail(p) ==
    AndThen(CheckSpends(p),
       AndThen(checkNullifiers(p, SPROUT),
          AndThen(checkNullifiers(p, SAPLING), CheckTotals(p))))

\* the orders in which a set can be iterated
RECURSIVE Orders(_)
Orders(S) ==
    IF S = {} THEN {<<>>}
    ELSE UNION {{<<x>> \o rest : rest \in Orders(S \ {x})} : x \in S}

CHECK_LOOP == "check:loop"
CHECK_DONE == "check:done"

\* last.out while check runs and when it has returned: at [2] how check
\* ended, at [3] the queue, at [4] the replica's coins, at [5]
\* stepsSinceLastRemove and at [6] the requeues so far
CheckLocals(result, waiting, coins, steps, requeued) ==
    <<"check", result, waiting, coins, steps, requeued>>

\* the process after check has returned or has died
CheckDone(result) == SetPool([Pool EXCEPT !.fault = IF result = "pass" THEN "none" ELSE result])

SetSanityCheck ==
    /\ Running
    /\ nCheckFrequency = 0
    /\ Call("setSanityCheck", <<>>, setSanityCheck(Pool), <<>>)

\* check up to the waiting loop; it returns at once when the checker is off
CheckEnter ==
    /\ Running
    /\ \E pcoins \in CheckViews, order \in Orders(DOMAIN mapTx) :
          LET scan == ScanEntries(Pool, pcoins, order, pcoins.coins, <<>>)
              at == [op |-> CHECK_LOOP, arg |-> <<pcoins, order>>, pre |-> Pool,
                     out |-> CheckLocals("", scan.waiting, scan.coins, 0, 0)]
          IN IF nCheckFrequency = 0
             THEN /\ CheckDone("pass")
                  /\ last' = [at EXCEPT !.op = CHECK_DONE,
                         !.out = CheckLocals("off", <<>>, pcoins.coins, 0, 0)]
             ELSE IF ~scan.ok
             THEN /\ CheckDone("assert")
                  /\ last' = [at EXCEPT !.op = CHECK_DONE,
                         !.out = CheckLocals("assert", scan.waiting, scan.coins, 0, 0)]
             ELSE /\ CheckDone("pass")
                  /\ last' = at

CheckStep ==
    /\ last.op = CHECK_LOOP
    /\ last.out[3] # <<>>
    /\ LET s == WaitStep(last.out[3], last.out[4], last.out[5])
           requeued == last.out[6] + (IF s.steps = 0 THEN 0 ELSE 1)
       IN IF s.ok
          THEN /\ CheckDone("pass")
               /\ last' = [last EXCEPT
                     !.out = CheckLocals("", s.waiting, s.coins, s.steps, requeued)]
          ELSE /\ CheckDone("assert")
               /\ last' = [last EXCEPT !.op = CHECK_DONE,
                     !.out = CheckLocals("stuck", s.waiting, s.coins, s.steps, requeued)]

CheckFinish ==
    /\ last.op = CHECK_LOOP
    /\ last.out[3] = <<>>
    /\ \E result \in CheckTail(Pool) :
          /\ CheckDone(result)
          /\ last' = [last EXCEPT !.op = CHECK_DONE,
                 !.out = CheckLocals(result, <<>>, last.out[4], 0,
                                     last.out[6])]

NextCheck ==
    \/ AddUnchecked
    \/ Remove
    \/ Clear
    \/ SetSanityCheck
    \/ CheckEnter
    \/ CheckStep
    \/ CheckFinish

SpecCheck ==
    /\ Init
    /\ [][NextCheck]_vars
    /\ WF_vars(CheckStep)
    /\ WF_vars(CheckFinish)

(***************************************************************************)
(* Block connection on a pool that has been cleared and refilled: here     *)
(* only the calls that fill the pool are counted against MaxUpdated, a     *)
(* block can be connected whenever the process lives.                      *)
(***************************************************************************)
ConnectBlock ==
    /\ fault = "none"
    /\ last.op = "none"
    /\ \E vtx \in Blocks :
           \E r \in removeForBlock(Pool, vtx, <<>>) :
               Call("removeForBlock", <<vtx>>, r.pool,
                    [conflicts |-> r.removed, entries |-> r.entries,
                     processBlock |-> r.processBlock])

NextBlock ==
    \/ AddUnchecked
    \/ Clear
    \/ ConnectBlock

SpecBlock == Init /\ [][NextBlock]_vars

(***************************************************************************)
(* Properties                                                              *)
(***************************************************************************)
\* the call a state remembers
Pre == last.pre
RemovedSet == SeqToSet(last.out)

\* the transactions reachable from tx by following rows of p.mapNextTx keyed
\* on an output of a transaction already reached
RECURSIVE CloseUnderSpends(_, _)
CloseUnderSpends(p, S) ==
    LET S2 == S \cup {p.mapNextTx[o].ptx :
                        o \in {k \in DOMAIN p.mapNextTx : k[1] \in S}}
    IN IF S2 = S THEN S ELSE CloseUnderSpends(p, S2)

Descendants(p, tx) == CloseUnderSpends(p, {tx})

\* C1: every input of every pool entry has a mapNextTx row naming that entry
\* and the input's position, and every mapNextTx row names a pool entry whose
\* input at the row's position spends the row's outpoint.
C1_SpendIndexConsistent ==
    /\ \A e \in DOMAIN mapTx : \A k \in DOMAIN Vin(e) :
          /\ Vin(e)[k] \in DOMAIN mapNextTx
          /\ mapNextTx[Vin(e)[k]] = [ptx |-> e, n |-> k - 1]
    /\ \A o \in DOMAIN mapNextTx :
          /\ mapNextTx[o].ptx \in DOMAIN mapTx
          /\ mapNextTx[o].n + 1 \in DOMAIN Vin(mapNextTx[o].ptx)
          /\ Vin(mapNextTx[o].ptx)[mapNextTx[o].n + 1] = o

\* a two-input entry has been removed from between its parents
C1_Witness ==
    /\ last.op = "remove"
    /\ last.out = <<3>>
    /\ DOMAIN mapTx = {1, 2}

\* pool p has no row of transaction e
NoRowsOf(p, e) ==
    /\ \A o \in DOMAIN p.mapNextTx :
          p.mapNextTx[o].ptx # e /\ o \notin Prevouts(e)
    /\ \A nf \in DOMAIN p.mapSproutNullifiers :
          p.mapSproutNullifiers[nf] # e /\ nf \notin SproutNullifiers(e)
    /\ \A nf \in DOMAIN p.mapSaplingNullifiers :
          p.mapSaplingNullifiers[nf] # e /\ nf \notin SaplingNullifiers(e)
    /\ \A nf \in DOMAIN p.mapOrchardNullifiers :
          p.mapOrchardNullifiers[nf] # e /\ nf \notin OrchardNullifiers(e)
    /\ e \notin DOMAIN p.mapRecentlyAddedTx

NoIndexRowsOf(p, e) ==
    /\ p.fAddressIndex =>
          /\ \A k \in DOMAIN p.mapAddress : k.txhash # e
          /\ e \notin DOMAIN p.mapAddressInserted
    /\ p.fSpentIndex =>
          /\ \A k \in DOMAIN p.mapSpent : p.mapSpent[k].txid # e
          /\ e \notin DOMAIN p.mapSpentInserted

RoundTrip(e) ==
    LET r == remove(Pool, e, <<>>, FALSE)
    IN /\ r.removed = <<e>>
       /\ e \notin DOMAIN r.pool.mapTx
       /\ NoRowsOf(r.pool, e)
       /\ NoIndexRowsOf(r.pool, e)

\* C2: removing (non-recursively) an entry that addUnchecked has just
\* inserted, with or without its address and spent index rows, leaves no
\* trace of it: it is no longer in the pool, the removed list is exactly that
\* entry, no spend, nullifier, recently-added or (enabled) index row of it is
\* left, and the size counters are back at their values before the insertion.
C2_InsertRemoveRoundTrip ==
    /\ last.op = "addUnchecked" =>
          /\ RoundTrip(last.arg[1])
          /\ remove(Pool, last.arg[1], <<>>, FALSE).pool.totalTxSize
                = Pre.totalTxSize
          /\ remove(Pool, last.arg[1], <<>>, FALSE).pool.cachedInnerUsage
                = Pre.cachedInnerUsage
    /\ last.op \in {"addAddressIndex", "addSpentIndex"} =>
          RoundTrip(last.arg[1])

\* the spent index has just been filled for an entry with two inputs, in a
\* pool with both indexes on that already held its parents
C2_Witness ==
    /\ last.op = "addSpentIndex"
    /\ last.arg = <<3>>
    /\ fAddressIndex /\ fSpentIndex
    /\ 3 \in DOMAIN mapAddressInserted
    /\ DOMAIN mapTx = {1, 2, 3}
    /\ DOMAIN mapSpent # {}

\* C3: a recursive remove(tx) removes exactly the entries of the pool in the
\* closure of tx under the pool's spend rows (tx itself may be absent), each
\* once; a non-recursive remove of an absent transaction removes nothing and
\* leaves the caller's removed list as it was.
C3_RemovesDescendantClosure ==
    last.op = "remove" =>
       LET tx == last.arg[1]
           closure == Descendants(Pre, tx) \cap DOMAIN Pre.mapTx
       IN /\ last.arg[2] =>
                /\ RemovedSet = closure
                /\ Len(last.out) = Cardinality(closure)
                /\ DOMAIN mapTx = DOMAIN Pre.mapTx \ closure
          /\ (~last.arg[2] /\ tx \notin DOMAIN Pre.mapTx) =>
                /\ last.out = <<>>
                /\ DOMAIN mapTx = DOMAIN Pre.mapTx
                /\ \A z \in TxIds :
                      /\ remove(Pre, tx, <<z>>, FALSE).removed = <<z>>
                      /\ remove(Pre, tx, <<z>>, FALSE).pool.mapTx = Pre.mapTx

\* a diamond (1 -> 2 -> 3 and 1 -> 3) has been removed from its root
C3_Witness ==
    /\ last.op = "remove"
    /\ last.arg = <<1, TRUE>>
    /\ DOMAIN Pre.mapTx = {1, 2, 3}
    /\ RemovedSet = {1, 2, 3}

\* C4: after a recursive remove, no mapNextTx row is keyed on an output of a
\* removed transaction, and no entry left in the pool spends one.
C4_NoSpendOfRemoved ==
    (last.op = "remove" /\ last.arg[2]) =>
       /\ \A o \in DOMAIN mapNextTx : o[1] \notin RemovedSet
       /\ \A e \in DOMAIN mapTx : \A o \in Prevouts(e) : o[1] \notin RemovedSet

\* an absent root (the coinbase 6) whose in-pool child had a child of its own
C4_Witness ==
    /\ last.op = "remove"
    /\ last.arg = <<6, TRUE>>
    /\ {1, 2} \subseteq RemovedSet

\* C5: repeating a remove that has returned changes nothing at all
\* (nTransactionsUpdated and the weighted tree included) and removes nothing.
C5_RemoveIdempotent ==
    last.op = "remove" =>
       remove(Pool, last.arg[1], <<>>, last.arg[2])
          = [pool |-> Pool, removed |-> <<>>]

\* the first call removed a parent and its child
C5_Witness ==
    /\ last.op = "remove"
    /\ last.arg[2]
    /\ Len(last.out) = 2
    /\ DOMAIN mapTx # {}

\* C6: totalTxSize is the sum of the entries' sizes and cachedInnerUsage the
\* sum of their dynamic memory usages.
C6_SizeCounters ==
    /\ totalTxSize = SumOver(DOMAIN mapTx, [t \in TxIds |-> TxTable[t].nTxSize])
    /\ cachedInnerUsage
          = SumOver(DOMAIN mapTx, [t \in TxIds |-> TxTable[t].nUsageSize])

\* the pool has been refilled after a clear()
C6_Witness ==
    /\ last.op = "addUnchecked"
    /\ nTransactionsUpdated >= 4
    /\ Pre.mapTx = EmptyMap
    /\ totalTxSize > 0

\* C7: every nullifier of every pool entry has a row, in the map of its
\* pool, pointing to that entry, and every row of the three nullifier maps
\* points to a pool entry that reveals the row's nullifier; this is claimed
\* after any sequence of operations, clear() included.
C7_NullifierMapsConsistent ==
    /\ \A e \in DOMAIN mapTx :
          /\ \A nf \in SproutNullifiers(e) :
                nf \in DOMAIN mapSproutNullifiers /\ mapSproutNullifiers[nf] = e
          /\ \A nf \in SaplingNullifiers(e) :
                nf \in DOMAIN mapSaplingNullifiers /\ mapSaplingNullifiers[nf] = e
          /\ \A nf \in OrchardNullifiers(e) :
                nf \in DOMAIN mapOrchardNullifiers /\ mapOrchardNullifiers[nf] = e
    /\ \A nf \in DOMAIN mapSproutNullifiers :
          /\ mapSproutNullifiers[nf] \in DOMAIN mapTx
          /\ nf \in SproutNullifiers(mapSproutNullifiers[nf])
    /\ \A nf \in DOMAIN mapSaplingNullifiers :
          /\ mapSaplingNullifiers[nf] \in DOMAIN mapTx
          /\ nf \in SaplingNullifiers(mapSaplingNullifiers[nf])
    /\ \A nf \in DOMAIN mapOrchardNullifiers :
          /\ mapOrchardNullifiers[nf] \in DOMAIN mapTx
          /\ nf \in OrchardNullifiers(mapOrchardNullifiers[nf])

\* C8: the transaction ids in the weighted tree are the transaction ids of
\* the pool's entries; this is claimed after clear() and after
\* SetMempoolCostLimit too.
C8_TreeMirrorsEntries ==
    DOMAIN weightedTxTree.nodes = DOMAIN mapTx

\* the pool entries, other than tx itself, that spend an outpoint tx spends
\* or reveal a nullifier tx reveals
Overlapping(p, tx) ==
    {e \in DOMAIN p.mapTx \ {tx} :
        \/ Prevouts(e) \cap Prevouts(tx) # {}
        \/ SproutNullifiers(e) \cap SproutNullifiers(tx) # {}
        \/ SaplingNullifiers(e) \cap SaplingNullifiers(tx) # {}
        \/ OrchardNullifiers(e) \cap OrchardNullifiers(tx) # {}}

\* every row removeConflicts(tx) can find in p points to an entry of p
RowsOfLive(p, tx) ==
    \A i \in DOMAIN ConflictLookups(tx) :
       \A ptx \in SeqToSet(LookupRow(p, ConflictLookups(tx)[i])) :
          ptx \in DOMAIN p.mapTx

\* the overlapping entries and their descendants in the pool
ConflictClosure(p, tx) ==
    CloseUnderSpends(p, Overlapping(p, tx)) \cap DOMAIN p.mapTx

Clash(a, b) ==
    \/ Prevouts(a) \cap Prevouts(b) # {}
    \/ SproutNullifiers(a) \cap SproutNullifiers(b) # {}
    \/ SaplingNullifiers(a) \cap SaplingNullifiers(b) # {}
    \/ OrchardNullifiers(a) \cap OrchardNullifiers(b) # {}

\* C10: after removeForBlock(vtx) no transaction of vtx is in the pool, no
\* entry of the pool shares a transparent input or a nullifier with one, and
\* the conflicts list names every entry removed that is not in vtx: the
\* conflicting entries and their descendants in the pool.  With pool {1, 2}
\* (2 spends 1) and a block <<4>> that double-spends 1's input, the list is
\* {1, 2} and the pool is empty.
C10_RemoveForBlock ==
    (last.op = "removeForBlock" /\ fault = "none") =>
       LET V == SeqToSet(last.arg[1])
           gone == DOMAIN Pre.mapTx \ DOMAIN mapTx
           conflicts == SeqToSet(last.out.conflicts)
       IN /\ V \cap DOMAIN mapTx = {}
          /\ \A e \in DOMAIN mapTx : \A t \in V : ~Clash(e, t)
          /\ DOMAIN mapTx \subseteq DOMAIN Pre.mapTx
          /\ gone \ V \subseteq conflicts
          /\ conflicts \subseteq gone
          /\ \A c \in conflicts :
                Descendants(Pre, c) \cap DOMAIN Pre.mapTx \subseteq conflicts \cup V
          /\ (DOMAIN Pre.mapTx = {1, 2} /\ last.arg[1] = <<4>>) =>
                conflicts = {1, 2} /\ DOMAIN mapTx = {}

\* the block <<4>> has arrived at the pool {1, 2}
C10_Witness ==
    /\ last.op = "removeForBlock"
    /\ fault = "none"
    /\ last.arg = << <<4>> >>
    /\ DOMAIN Pre.mapTx = {1, 2}
    /\ SeqToSet(last.out.conflicts) = {1, 2}
    /\ DOMAIN mapTx = {}

\* the entries of the block's transactions that are in pool p, in the
\* block's order, with their fee deltas in p
SnapshotOf(p, vtx) ==
    LET inPool == SelectSeq(vtx, LAMBDA t : t \in DOMAIN p.mapTx)
    IN [i \in DOMAIN inPool |->
          [tx |-> inPool[i], feeDelta |-> p.mapTx[inPool[i]].feeDelta]]

\* C11: removeForBlock calls the estimator's processBlock exactly once, when
\* every remove / removeConflicts / ClearPrioritisation of the call is done
\* (the pool at the call is the pool the call leaves, with no block
\* transaction in it), and hands it the entries, fee deltas included, that
\* the block's transactions had in the pool before the call removed anything.
C11_EstimatorSnapshot ==
    (last.op = "removeForBlock" /\ fault = "none") =>
       /\ Len(last.out.processBlock) = 1
       /\ last.out.processBlock[1].entries = SnapshotOf(Pre, last.arg[1])
       /\ last.out.processBlock[1].mapTx = mapTx
       /\ \A t \in SeqToSet(last.arg[1]) :
             /\ t \notin DOMAIN last.out.processBlock[1].mapTx
             /\ t \notin DOMAIN mapDeltas

\* a block of two pool entries, the first with a fee delta, has been
\* connected to a pool that also held their child
C11_Witness ==
    /\ last.op = "removeForBlock"
    /\ fault = "none"
    /\ last.arg = << <<1, 2>> >>
    /\ DOMAIN Pre.mapTx = {1, 2, 3}
    /\ Pre.mapTx[1].feeDelta = 1
    /\ Len(last.out.processBlock[1].entries) = 2
    /\ DOMAIN mapTx = {3}

\* C12: when EnsureSizeLimit returns, the total weight of the tree is within
\* the cost limit, and every victim maybeDropRandom chose is out of the pool
\* and is reported by IsRecentlyEvicted.
C12_EvictionTotality ==
    (last.op = "EnsureSizeLimit" /\ fault = "none") =>
       /\ TreeTotal(weightedTxTree) <= weightedTxTree.capacity
       /\ \A v \in RemovedSet :
             /\ v \notin DOMAIN mapTx
             /\ IsRecentlyEvicted(Pool, v)

\* two victims were needed to come within the limit
C12_Witness ==
    /\ last.op = "EnsureSizeLimit"
    /\ fault = "none"
    /\ Len(last.out) = 2
    /\ TreeTotal(Pre.weightedTxTree) > Pre.weightedTxTree.capacity
    /\ last.out[1] \in DOMAIN Pre.mapTx
    /\ last.out[2] \in DOMAIN Pre.mapTx

\* C13: every iteration of the loop of EnsureSizeLimit makes the tree's total
\* strictly smaller, by the weight of the victim and of every entry removed
\* with it, and the loop is left after finitely many iterations (by the
\* return, or by the death of the process on a victim that is not in mapTx).
C13_EnsureSizeLimitTerminates ==
    /\ [][(last.op = LOOP /\ last'.op = LOOP /\ last'.out # last.out) =>
            LET tree == weightedTxTree
                gone == (DOMAIN mapTx \ DOMAIN mapTx') \cup {last'.out[Len(last'.out)]}
            IN /\ TreeTotal(weightedTxTree') < TreeTotal(tree)
               /\ TreeTotal(weightedTxTree')
                     <= TreeTotal(tree)
                          - SumOver(gone \cap DOMAIN tree.nodes, tree.nodes)]_vars
    /\ (last.op = LOOP) ~> (last.op = DONE \/ fault # "none")

\* the loop has returned after evicting a parent, which took its child along
C13_Witness ==
    /\ last.op = DONE
    /\ last.out = <<1>>
    /\ DOMAIN Pre.mapTx = {1, 2}
    /\ DOMAIN mapTx = {}
    /\ TreeTotal(weightedTxTree) = 0

\* the fee delta mapDeltas holds for hash (none: 0)
StoredFeeDelta(p, hash) ==
    IF hash \in DOMAIN p.mapDeltas THEN p.mapDeltas[hash][2] ELSE 0

Prioritised(p, hash, d) == PrioritiseTransaction(p, hash, d[1], d[2])

\* C14: the fee delta of an entry does not depend on whether the
\* PrioritiseTransaction calls for its txid come before addUnchecked, after
\* it or around it: in each order it is the stored fee delta plus the sum of
\* the calls' fee deltas.  In the states reached: addUnchecked gives the
\* entry the stored fee delta, and PrioritiseTransaction gives an entry of
\* the pool the accumulated one.
C14_PrioritiseCommutesWithAdd ==
    /\ \A h \in PrioTxIds : (h \notin DOMAIN mapTx /\ fault = "none") =>
          \A d1 \in PrioInputs, d2 \in PrioInputs :
             LET total == StoredFeeDelta(Pool, h) + d1[2] + d2[2]
                 before == addUnchecked(
                              Prioritised(Prioritised(Pool, h, d1), h, d2), h, h)
                 after == Prioritised(
                             Prioritised(addUnchecked(Pool, h, h), h, d1), h, d2)
                 around == Prioritised(
                              addUnchecked(Prioritised(Pool, h, d1), h, h), h, d2)
             IN /\ before.mapTx[h].feeDelta = total
                /\ after.mapTx[h].feeDelta = total
                /\ around.mapTx[h].feeDelta = total
                /\ before.mapDeltas = after.mapDeltas
                /\ after.mapDeltas = around.mapDeltas
    /\ last.op = "addUnchecked" =>
          mapTx[last.arg[1]].feeDelta = StoredFeeDelta(Pre, last.arg[1])
    /\ (last.op = "PrioritiseTransaction" /\ last.arg[1] \in DOMAIN mapTx) =>
          mapTx[last.arg[1]].feeDelta
             = StoredFeeDelta(Pre, last.arg[1]) + last.arg[3]

\* an entry admitted with a stored fee delta has been prioritised again
C14_Witness ==
    /\ last.op = "PrioritiseTransaction"
    /\ last.arg = <<1, 0 - 1, 0 - 1>>
    /\ 1 \in DOMAIN Pre.mapTx
    /\ Pre.mapTx[1].feeDelta = 1
    /\ mapTx[1].feeDelta = 0
    /\ mapDeltas[1] = <<0, 0>>

\* the calls that remove entries without being told of a block
EntryRemovals ==
    {"remove", "removeConflicts", "removeForReorg", "removeWithAnchor",
     "removeExpired", "removeWithoutBranchId", "EnsureSizeLimit", "clear"}

\* C15: a mapDeltas row is destroyed only by ClearPrioritisation, called
\* directly or by removeForBlock for the txids of its block: remove,
\* removeConflicts, the sweeps, EnsureSizeLimit, clear and addUnchecked leave
\* mapDeltas as it was, ClearPrioritisation and removeForBlock take away the
\* rows of their txids and no other, and an entry admitted while a row of
\* its txid is stored gets the row's fee delta.
C15_DeltasOutliveEntries ==
    /\ last.op \in EntryRemovals =>
          /\ mapDeltas = Pre.mapDeltas
          /\ \A h \in (DOMAIN Pre.mapTx \ DOMAIN mapTx) \cap DOMAIN mapDeltas :
                addUnchecked(Pool, h, h).mapTx[h].feeDelta = mapDeltas[h][2]
    /\ last.op = "ClearPrioritisation" =>
          /\ DOMAIN mapDeltas = DOMAIN Pre.mapDeltas \ {last.arg[1]}
          /\ \A h \in DOMAIN mapDeltas : mapDeltas[h] = Pre.mapDeltas[h]
    /\ (last.op = "removeForBlock" /\ fault = "none") =>
          /\ DOMAIN mapDeltas = DOMAIN Pre.mapDeltas \ SeqToSet(last.arg[1])
          /\ \A h \in DOMAIN mapDeltas : mapDeltas[h] = Pre.mapDeltas[h]
    /\ last.op = "addUnchecked" =>
          /\ mapDeltas = Pre.mapDeltas
          /\ mapTx[last.arg[1]].feeDelta = StoredFeeDelta(Pre, last.arg[1])

\* a prioritised entry has been removed; its row is still there, and it
\* can be admitted again
C15_Witness ==
    /\ last.op = "remove"
    /\ last.out = <<1>>
    /\ Pre.mapTx[1].feeDelta = 1
    /\ mapDeltas[1] = <<1, 1>>
    /\ Admissible(Pool, 1)
    /\ addUnchecked(Pool, 1, 1).mapTx[1].feeDelta = 1

\* C16: GetCoins(txid) of the pool's view succeeds with the coins of the
\* pool's transaction at MEMPOOL_HEIGHT whenever txid is in the pool,
\* whatever the base view holds for it; for a txid that is not in the pool
\* it succeeds exactly when the base view has coins for it that are not
\* pruned, and then hands back the base's coins.
C16_OverlayPrecedence ==
    last.op = "GetCoins" =>
       LET base == last.arg[1]
           txid == last.arg[2]
       IN IF txid \in DOMAIN mapTx
          THEN /\ last.out.ok
               /\ last.out.coins.tx = txid
               /\ last.out.coins.nHeight = MEMPOOL_HEIGHT
               /\ last.out.coins.unspent = 0 .. (NVout(txid) - 1)
          ELSE /\ last.out.ok <=>
                     (txid \in DOMAIN base /\ base[txid].unspent # {})
               /\ last.out.ok => last.out.coins = base[txid]

\* the base holds other, unpruned coins for a transaction of the pool
C16_Witness ==
    /\ last.op = "GetCoins"
    /\ last.arg[2] = 2
    /\ 2 \in DOMAIN mapTx
    /\ 2 \in DOMAIN last.arg[1]
    /\ last.arg[1][2].unspent = {0}
    /\ last.out.coins.nHeight = MEMPOOL_HEIGHT

\* the anchors of the spends of one shielded protocol in a transaction
AnchorsOf(e, type) ==
    IF type = SPROUT
    THEN {TxTable[e].vJoinSplit[j].anchor : j \in DOMAIN TxTable[e].vJoinSplit}
    ELSE {TxTable[e].vShieldedSpend[j].anchor :
             j \in DOMAIN TxTable[e].vShieldedSpend}

C18_UnknownTypeOnly ==
    last.op = "removeWithAnchor" =>
       /\ last.out.threw <=> last.arg[2] \notin ShieldedTypes
       /\ last.out.threw => mapTx = Pre.mapTx

\* the elements of a sequence
Range(s) == {s[i] : i \in DOMAIN s}

\* a sequence of txids lists each once, in the iteration order of mapTx
InIterationOrder(ids) ==
    \A i, j \in DOMAIN ids : i < j => ids[i] < ids[j]

\* the entries of the pool before the call that IsExpiredTx holds for
ExpiredBefore ==
    {e \in DOMAIN Pre.mapTx : IsExpiredTx(e, last.arg[1])}

\* C19 as stated: removeExpired(height) returns, once each and in pool
\* iteration order, exactly the txids of the entries the call removed, and
\* no entry that IsExpiredTx holds for remains.
C19_ReturnsExactlyRemoved ==
    last.op = "removeExpired" =>
       /\ Range(last.out) = DOMAIN Pre.mapTx \ DOMAIN mapTx
       /\ InIterationOrder(last.out)
       /\ \A e \in DOMAIN mapTx : ~IsExpiredTx(e, last.arg[1])

\* C19 amended: removeExpired(height) returns, once each and in pool
\* iteration order, exactly the txids of the entries IsExpiredTx held for when
\* the call began; the call removes those entries and their descendants in
\* the pool, listed or not, and nothing else; afterwards no entry that
\* IsExpiredTx holds for remains.
C19_ReturnsExpired ==
    last.op = "removeExpired" =>
       /\ Range(last.out) = ExpiredBefore
       /\ InIterationOrder(last.out)
       /\ DOMAIN mapTx = DOMAIN Pre.mapTx \ CloseUnderSpends(Pre, ExpiredBefore)
       /\ \A e \in DOMAIN mapTx : ~IsExpiredTx(e, last.arg[1])

\* 2 and 4 have expired and are returned in that order; 3, which spends an
\* output of 2 and never expires, is removed without being returned
C19_Witness ==
    /\ last.op = "removeExpired"
    /\ last.arg = <<6>>
    /\ DOMAIN Pre.mapTx = {2, 3, 4}
    /\ last.out = <<2, 4>>
    /\ DOMAIN mapTx = {}

\* a coin of the view that is a coinbase output too young to be spent
ImmatureCoinbase(pcoins, hash, height) ==
    /\ pcoins[hash].fCoinBase
    /\ height - pcoins[hash].nHeight < COINBASE_MATURITY

\* the removal conditions of the reorg sweep for entry e of the pool before
\* the call: e is not final, or e spends a coinbase and has an input whose
\* parent is not in the pool and whose coin is missing or an immature
\* coinbase
MatchesReorg(e, pcoins, height) ==
    \/ ~CheckFinalTx(e, height)
    \/ /\ TxTable[e].spendsCoinbase
       /\ \E i \in DOMAIN Vin(e) :
             LET hash == Vin(e)[i][1]
             IN /\ hash \notin DOMAIN Pre.mapTx
                /\ (hash \in DOMAIN pcoins => ImmatureCoinbase(pcoins, hash, height))

\* C20: after removeForReorg(pcoins, height, flags) every surviving entry
\* passes CheckFinalTx; every input of a surviving entry that spends a
\* coinbase has its parent in the surviving pool or a coin in pcoins that is
\* not an immature coinbase; an input whose parent is in the pool is not
\* checked for maturity; and the entries removed are exactly those matching
\* a removal condition and their descendants in the pool.
C20_ReorgSweep ==
    (last.op = "removeForReorg" /\ fault = "none") =>
       LET pcoins == last.arg[1]
           height == last.arg[2]
           hit == {e \in DOMAIN Pre.mapTx : MatchesReorg(e, pcoins, height)}
       IN /\ \A e \in DOMAIN mapTx : CheckFinalTx(e, height)
          /\ \A e \in DOMAIN mapTx :
                TxTable[e].spendsCoinbase =>
                   \A i \in DOMAIN Vin(e) :
                      LET hash == Vin(e)[i][1]
                      IN \/ hash \in DOMAIN mapTx
                         \/ /\ hash \in DOMAIN pcoins
                            /\ ~ImmatureCoinbase(pcoins, hash, height)
          /\ DOMAIN mapTx = DOMAIN Pre.mapTx \ CloseUnderSpends(Pre, hit)

\* 5 spends a mature coinbase output and an output of 4, which is in the
\* pool and has no coin in the view: both stay
C20_Witness ==
    /\ last.op = "removeForReorg"
    /\ fault = "none"
    /\ last.arg[2] = 200
    /\ DOMAIN last.arg[1] = {6}
    /\ DOMAIN Pre.mapTx = {4, 5}
    /\ DOMAIN mapTx = {4, 5}

\* C21 as stated: a public operation holds cs for its full duration, so
\* while HasNoInputsOf runs it holds cs, and the answer it returns is the
\* answer of an atomic call in one of the pools there have been during the
\* call (never true when every one of them held a parent of tx).
C21_OperationsHoldLock ==
    /\ last.op = HNI_RUN => last.out.cs
    /\ last.op = HNI_DONE => last.out.result \in last.out.atomic

\* C22 as stated: what a drain returns are entries of the pool at the
\* moment of the drain, namely every entry added since the previous drain
\* that is still in the pool, once each; the sequence number returned is the
\* number of addUnchecked calls so far; the drain does not fail.
C22_DrainReturnsLiveEntries ==
    last.op = "DrainRecentlyAdded" =>
       /\ fault = "none"
       /\ \A i \in DOMAIN last.out.txs : last.out.txs[i] \in DOMAIN Pre.mapTx
       /\ \A i, j \in DOMAIN last.out.txs :
             i # j => last.out.txs[i] # last.out.txs[j]
       /\ last.out.recentlyAddedSequence = Pre.nRecentlyAddedSequence
       /\ mapRecentlyAddedTx = EmptyMap

\* some nullifier of t has a row in the map of its protocol in pool p
HasNullifierRow(p, t) ==
    \/ SproutNullifiers(t) \cap DOMAIN p.mapSproutNullifiers # {}
    \/ SaplingNullifiers(t) \cap DOMAIN p.mapSaplingNullifiers # {}
    \/ OrchardNullifiers(t) \cap DOMAIN p.mapOrchardNullifiers # {}

\* some nullifier of t has no row in the map of its protocol in pool p
LacksNullifierRow(p, t) ==
    \/ ~(SproutNullifiers(t) \subseteq DOMAIN p.mapSproutNullifiers)
    \/ ~(SaplingNullifiers(t) \subseteq DOMAIN p.mapSaplingNullifiers)
    \/ ~(OrchardNullifiers(t) \subseteq DOMAIN p.mapOrchardNullifiers)

\* C23 as stated: addUnchecked of a transaction one of whose nullifiers
\* already has a row fails an assertion (the row is not overwritten), and
\* removing an entry one of whose nullifiers has no row fails an assertion.
C23_NullifierGuards ==
    /\ (last.op = "addUnchecked" /\ HasNullifierRow(Pre, last.arg[1]))
          => fault = "assert"
    /\ (/\ last.op = "remove"
        /\ last.arg[1] \in DOMAIN Pre.mapTx
        /\ LacksNullifierRow(Pre, last.arg[1]))
          => fault = "assert"

\* some row of a nullifier map points to a transaction that is not an entry
DanglingNullifierRow(p) ==
    \/ \E nf \in DOMAIN p.mapSproutNullifiers : Dangling(p, p.mapSproutNullifiers[nf])
    \/ \E nf \in DOMAIN p.mapSaplingNullifiers : Dangling(p, p.mapSaplingNullifiers[nf])
    \/ \E nf \in DOMAIN p.mapOrchardNullifiers : Dangling(p, p.mapOrchardNullifiers[nf])

\* C24 as stated: a check that runs fails when a row of the sprout, sapling
\* or orchard nullifier map points to a transaction that is not an entry of
\* the pool; a pool with such a row never passes check.
C24_CheckCatchesDanglingRows ==
    (last.op = CHECK_DONE /\ last.out[2] = "pass") =>
       ~DanglingNullifierRow(Pre)

\* every input of every entry of p is an output of an entry of p or an
\* available coin of the base view
InputsProvided(p, view) ==
    \A e \in DOMAIN p.mapTx : \A i \in DOMAIN Vin(e) :
       IF Vin(e)[i][1] \in DOMAIN p.mapTx
       THEN Vin(e)[i][2] < NVout(Vin(e)[i][1])
       ELSE IsAvailable(view.coins, Vin(e)[i])

\* C25: for a pool all of whose inputs are provided by the pool or the base
\* view, iterated in any order, the waiting loop of check ends with an
\* empty queue and its no-progress assert does not fail; the assert fails
\* only for a queue none of whose entries has its inputs in the replica.
C25_WaitingLoopTerminates ==
    /\ []((last.op = CHECK_DONE /\ last.out[2] = "stuck") =>
             /\ ~InputsProvided(Pre, last.arg[1])
             /\ \A k \in DOMAIN last.out[3] :
                   ~HaveInputs(last.out[4], last.out[3][k]))
    /\ []((last.op = CHECK_DONE /\ last.out[2] = "pass") =>
             last.out[3] = <<>>)
    /\ (last.op = CHECK_LOOP) ~> (last.op = CHECK_DONE)

\* the pool 1 -> 2 -> 3 iterated with the children first: 3 is requeued
\* behind 2 once, then both are applied and check passes
C25_Witness ==
    /\ last.op = CHECK_DONE
    /\ last.out[2] = "pass"
    /\ DOMAIN Pre.mapTx = {1, 2, 3}
    /\ last.arg[2] = <<3, 2, 1>>
    /\ last.out[6] = 1

\* the rows of the spend index and of the nullifier maps that entry c owns
\* are the same in pools p and q
SameRowsOf(p, q, c) ==
    /\ \A po \in Prevouts(c) :
          /\ po \in DOMAIN p.mapNextTx /\ po \in DOMAIN q.mapNextTx
          /\ p.mapNextTx[po] = q.mapNextTx[po]
    /\ \A nf \in SproutNullifiers(c) :
          /\ nf \in DOMAIN p.mapSproutNullifiers /\ nf \in DOMAIN q.mapSproutNullifiers
          /\ p.mapSproutNullifiers[nf] = q.mapSproutNullifiers[nf]
    /\ \A nf \in SaplingNullifiers(c) :
          /\ nf \in DOMAIN p.mapSaplingNullifiers /\ nf \in DOMAIN q.mapSaplingNullifiers
          /\ p.mapSaplingNullifiers[nf] = q.mapSaplingNullifiers[nf]
    /\ \A nf \in OrchardNullifiers(c) :
          /\ nf \in DOMAIN p.mapOrchardNullifiers /\ nf \in DOMAIN q.mapOrchardNullifiers
          /\ p.mapOrchardNullifiers[nf] = q.mapOrchardNullifiers[nf]

\* the entries of the pool before the call, outside the block vtx, that
\* share an input or a nullifier with a transaction of vtx
ConflictingWith(vtx) ==
    {e \in DOMAIN Pre.mapTx \ SeqToSet(vtx) : \E t \in SeqToSet(vtx) : Clash(e, t)}

\* the entries the claim is about: outside vtx, spending an output of a pool
\* transaction of vtx, neither conflicting with vtx nor descending from an
\* entry that does
MinedChildren(vtx) ==
    {c \in DOMAIN Pre.mapTx \ SeqToSet(vtx) :
        /\ \E i \in DOMAIN Vin(c) :
              Vin(c)[i][1] \in SeqToSet(vtx) \cap DOMAIN Pre.mapTx
        /\ c \notin CloseUnderSpends(Pre, ConflictingWith(vtx))}

\* C26: removeForBlock(vtx) leaves in the pool, with its spend rows and
\* nullifier rows as they were, every entry that spends an output of a
\* removed transaction of vtx and neither conflicts with vtx nor descends
\* from an entry that does.
C26_MinedParentsDoNotCascade ==
    (last.op = "removeForBlock" /\ fault = "none") =>
       \A c \in MinedChildren(last.arg[1]) :
          /\ c \in DOMAIN mapTx
          /\ SameRowsOf(Pre, Pool, c)

\* C27 as stated: in every state the fee delta of each pool entry is the fee
\* delta of the mapDeltas row of its txid, or 0 when there is no such row.
C27_FeeDeltaMatchesDeltas ==
    \A e \in DOMAIN mapTx :
       mapTx[e].feeDelta
          = IF e \in DOMAIN mapDeltas THEN mapDeltas[e][2] ELSE 0

\* C28 as stated: every txid maybeDropRandom hands to EnsureSizeLimit is the
\* txid of an entry of the pool, so mapTx.find(txId) finds the victim and
\* the call does not go wrong.
C28_VictimsAreLive ==
    last.op = "EnsureSizeLimit" =>
       /\ fault = "none"
       /\ \A k \in DOMAIN last.out : last.out[k] \in DOMAIN Pre.mapTx

====
